---- MODULE Spec2Model ----
(***************************************************************************)
(* Acquisition-and-transport pipeline of the sensor node firmware          *)
(* (src/unnamed/part_001): particulate frame decoder (readSDS), pulse      *)
(* counter (onGeigerPulse and the window close in loop), environmental     *)
(* sensor (initBME, readBME), link and time trust (connectWiFi,            *)
(* bootstrapTimeIfNeeded, trySyncTimeNtp, ensureTimeSynced), delivery      *)
(* (postReading) and the control loop (setup, loop); and the operator's    *)
(* dashboard page (src/frontend/static/js): the overall-status poller of   *)
(* base.js and the ground chart of dashboard.js.                           *)
(*                                                                         *)
(* Conventions.                                                            *)
(*  - C arrays are 0-based, TLA+ sequences 1-based: buf[i] of the source   *)
(*    is buf[i+1] here.                                                    *)
(*  - A float holding raw/10.0f is the record [n |-> raw, d |-> 10]; the   *)
(*    other floats are the fractions or integers their sources produce.    *)
(*  - config.h (SDS_READ_WINDOW_MS, GEIGER_WINDOW_MS, SEND_INTERVAL_MS,    *)
(*    ...) is not among the sources at hand; its values are scaled-down    *)
(*    definitions here, and millis() counts in the same scaled unit.       *)
(*  - Variables marked "history" record what happened; no action reads     *)
(*    them to decide what the program does.                                *)
(*  - sdsLastGoodFrameMs and sdsDebugWindowEnd are written and never read  *)
(*    by the firmware (SDS_RAW_DEBUG off); they are left out.              *)
(***************************************************************************)
EXTENDS Integers, Sequences, FiniteSets, TLC

VARIABLES
    \* ---- the environment of one run ----
    envWifi,      \* what WiFi.status() may return inside postReading
    envCodes,     \* what http.POST may return
    envSds,       \* the streams the particulate sensor may deliver per cycle
    envPulses,    \* how many edges the radiation detector produces in this run
    envTook,      \* how long the network calls of one cycle may take
    \* ---- particulate frame decoder (readSDS) ----
    sdsRx,        \* bytes waiting in the UART receive buffer of sdsSerial
    sdsPc,        \* "idle" | "scan" | "ret_true" | "ret_false"
    sdsElapsed,   \* millis() - start inside readSDS
    pmRead25,     \* output parameter pm25 of readSDS (loop's pmRead25)
    pmRead10,     \* output parameter pm10 of readSDS (loop's pmRead10)
    pmWritten,    \* history: readSDS assigned its output parameters
    sdsCand,      \* history: the 10-byte candidate examined by the last step, or << >>
    sdsIn,        \* history: the stream handed to this call, [garbage, frame, trailer]
    \* ---- link and time trust ----
    compileTime,  \* what __DATE__ __TIME__ give: [parses, epoch]
    clock,        \* time(nullptr), epoch seconds
    clockSrc,     \* history: who set the clock last, "none" | "build" | "ntp"
    connPc,       \* connectWiFi: "idle" | "begin" | "poll" | "check"
    connRet,      \* history: the caller of connectWiFi, "setup" | "preflight" | "attempt"
    retries,      \* int retries of connectWiFi
    linkSeen,     \* history: what the last WiFi.status() of connectWiFi returned
    rounds,       \* history: the calls of connectWiFi nested in the current one
    \* ---- delivery (postReading) ----
    postPc,       \* "idle" | "wifi" | "time" | "reach" | "gate" | "attempt" | "begin" | "done"
    postArgs,     \* the six arguments of the call
    timeOk,       \* bool timeOk
    reachOk,      \* history: what checkInternetReachable returned in this call
    reachSeen,    \* history: how far it got, "none" | "dns_failed" | "tcp_failed" | "reachable"
    beginFailed,  \* history: beginHttps returned false in this call
    attempt,      \* int attempt (0 before the for loop)
    backoffMs,    \* int backoffMs (0 before its declaration)
    body,         \* the serialized document, NoBody before it is built
    sent,         \* history: the bodies handed to http.POST in this call
    code,         \* int code of the last http.POST of this call
    delays,       \* history: the arguments of delay(backoffMs) in this call
    postRet,      \* what postReading returned, "none" while it runs
    \* ---- pulse counter ----
    geigerPulses,       \* volatile uint32_t geigerPulses
    geigerWindowStart,  \* unsigned long geigerWindowStart
    geigerMux,          \* portMUX_TYPE geigerMux: "free" | "loop"
    pulses,             \* uint32_t pulses, local of the window close
    now,                \* unsigned long now, local of loop
    isrTotal,           \* history: completed onGeigerPulse invocations
    consumedTotal,      \* history: sum of pulses over the completed window closes
    misfiled,           \* history: pulses that came after a close had taken its `now` and were read by it
    \* ---- environmental sensor ----
    bmeReady,           \* bool bmeReady
    bmeRetryAt,         \* unsigned long bmeRetryAt
    bmeWarmupUntil,     \* unsigned long bmeWarmupUntil
    bmeAddrInUse,       \* uint8_t bmeAddrInUse
    bmeOk,              \* history: readBME in this iteration, "not_called" | "failed" | "ok"
    bmeProbes,          \* history: the addresses the last initBME probed, in order
    \* ---- control loop ----
    ms,                 \* millis()
    loopPc,             \* where setup() or loop() stands
    lastPm25, lastPm10, lastTempC, lastHum, lastPress, lastGas, lastRadiationUsvh,
    sdsWarmupUntil, sdsNoFrameHintAt, sdsHintShown,
    sdsLines,           \* history: failure diagnostics printed after warmup since the last good frame
    tempC, hum, press, gas, pm25, pm10, sdsWarming, radiationUsvh,   \* locals of loop
    sdsOk,              \* history: readSDS returned true in this iteration
    sdsLog,             \* history: the particulate diagnostic of this iteration
    lastAtTop,          \* history: the last-known-good values when the iteration began
    \* ---- dashboard page, base.js: the overall-status badge and its poller ----
    baseLoaded,         \* the DOMContentLoaded handler of base.js has run
    statusOverride,     \* window.__statusOverride, "" for null or undefined
    badge,              \* textContent and class of #overallStatusBadge
    storedStatus,       \* localStorage item "overallStatus", "" when absent
    ovTimers,           \* pending setTimeout(pollOverall, 2000) timers
    ovAwait,            \* runs of pollOverall waiting at await fetchStatus()
    ovTick,             \* history: parity of the runs of pollOverall started
    ovLast,             \* history: how the last finished run ended, "none" | "override" | "ok" | "failed"
    \* ---- dashboard page, dashboard.js: the ground chart and the page poll ----
    dashPollPc,         \* poll: "unloaded" | "running" | "timer"
    groundSelect,       \* values of #groundNodeSelect and #groundMetricSelect
    groundFlight,       \* refreshGroundChart calls waiting at await fetchRecent, oldest first
    groundChart,        \* what groundChart shows: the selection its rows were fetched for
    groundShownPos,     \* history: how many calls in groundFlight are older than the one shown
    groundStale,        \* history: the last rows applied replaced rows of a later call
    groundLastSel,      \* history: the selection of the most recent call
    groundLatest        \* history: fate of the most recent call, "none" | "pending" | "applied" | "failed"

envVars == <<envWifi, envCodes, envSds, envPulses, envTook>>
sdsVars == <<sdsRx, sdsPc, sdsElapsed, pmRead25, pmRead10, pmWritten, sdsCand, sdsIn>>
timeVars == <<compileTime, clock, clockSrc>>
connVars == <<connPc, connRet, retries, linkSeen, rounds>>
postVars == <<postPc, postArgs, timeOk, reachOk, reachSeen, beginFailed, attempt, backoffMs, body,
              sent, code, delays, postRet>>
geigerVars == <<geigerPulses, geigerWindowStart, geigerMux, pulses, now, isrTotal,
                consumedTotal, misfiled>>
bmeVars == <<bmeReady, bmeRetryAt, bmeWarmupUntil, bmeAddrInUse, bmeOk, bmeProbes>>
lastVars == <<lastPm25, lastPm10, lastTempC, lastHum, lastPress, lastGas,
              lastRadiationUsvh>>
sdsGateVars == <<sdsWarmupUntil, sdsNoFrameHintAt, sdsHintShown, sdsLines>>
localVars == <<tempC, hum, press, gas, pm25, pm10, sdsWarming, radiationUsvh>>
loopVars == <<ms, loopPc, lastVars, sdsGateVars, localVars, sdsOk, sdsLog, lastAtTop>>

baseVars == <<baseLoaded, statusOverride, badge, storedStatus, ovTimers, ovAwait, ovTick, ovLast>>
dashVars == <<dashPollPc, groundSelect, groundFlight, groundChart, groundShownPos,
              groundStale, groundLastSel, groundLatest>>
webVars == <<baseVars, dashVars>>
nodeVars == <<envVars, sdsVars, timeVars, connVars, postVars, geigerVars, bmeVars, loopVars>>

vars == <<nodeVars, webVars>>

----------------------------------------------------------------------------
(* SDS011 constants, part_001 lines 13-16 *)
SDS_FRAME_LEN == 10
SDS_HEADER1 == 170
SDS_HEADER2 == 192
SDS_TAIL == 171

(* config.h values, scaled down: the read window of readSDS and the        *)
(* timeout of sdsSerial.readBytes, in ms.                                  *)
SDS_READ_WINDOW_MS == 4
SDS_READ_TIMEOUT_MS == 2
(* delay(2) of the polling branch of readSDS *)
SDS_POLL_DELAY_MS == 2

(* Bounds of the decoder's inputs *)
MaxGarbage == 2

Float10(raw) == [n |-> raw, d |-> 10]

RECURSIVE SumBytes(_, _, _)
SumBytes(buf, lo, hi) ==
    IF lo > hi THEN 0 ELSE buf[lo] + SumBytes(buf, lo + 1, hi)

(* a faulty variant of SdsChecksum: the sum starts at buf[1] *)
SdsChecksumFromHeader(buf) == SumBytes(buf, 2, 8) % 256

(* uint8_t checksum = 0; for (i = 2; i < 8; i++) checksum += buf[i]; *)
SdsChecksum(buf) == SumBytes(buf, 3, 8) % 256

(* a faulty variant of SdsAccepts: line 261 without its test of buf[9] *)
SdsAcceptsNoTail(buf) ==
    /\ buf[2] = SDS_HEADER2
    /\ SdsChecksum(buf) = buf[9]

(* the two rejecting tests of readSDS, lines 261 and 265 *)
SdsAccepts(buf) ==
    /\ buf[2] = SDS_HEADER2
    /\ buf[10] = SDS_TAIL
    /\ SdsChecksum(buf) = buf[9]

(* a faulty variant of SdsPm25Raw: the two bytes in the other order *)
SdsPm25RawBigEndian(buf) == (buf[4] + buf[3] * 256) % 65536

(* uint16_t pm25Raw = (buf[2] | (buf[3] << 8)): the two bytes occupy       *)
(* disjoint bits, so the OR is the sum; the uint16_t keeps 16 bits.        *)
SdsPm25Raw(buf) == (buf[3] + buf[4] * 256) % 65536
SdsPm10Raw(buf) == (buf[5] + buf[6] * 256) % 65536

----------------------------------------------------------------------------
(* Input streams of the decoder *)

GarbageBytes == {SDS_HEADER1, SDS_HEADER2, 0}

RECURSIVE SeqsUpTo(_, _)
SeqsUpTo(S, n) ==
    IF n = 0 THEN {<< >>}
    ELSE LET shorter == SeqsUpTo(S, n - 1)
         IN shorter \cup {Append(s, b) : s \in {t \in shorter : Len(t) = n - 1}, b \in S}

LoByte(raw) == raw % 256
HiByte(raw) == (raw \div 256) % 256

(* A 10-byte frame as the sensor sends it: header, secondary header, PM2.5 *)
(* and PM10 little-endian, two id bytes, checksum, tail; ckOff and the     *)
(* two header/tail arguments let the environment corrupt it.               *)
MakeFrame(h2, raw25, raw10, ckOff, tail) ==
    LET payload == <<LoByte(raw25), HiByte(raw25), LoByte(raw10), HiByte(raw10), 18, 52>>
        ck == (SumBytes(payload, 1, 6) + ckOff) % 256
    IN <<SDS_HEADER1, h2>> \o payload \o <<ck, tail>>

Pm25Raws == {123, 300}
Pm10Raws == {200}

CandidateFrames ==
    {MakeFrame(h2, r25, r10, off, tl) :
        h2 \in {SDS_HEADER2, 0}, r25 \in Pm25Raws, r10 \in Pm10Raws,
        off \in {0, 1}, tl \in {SDS_TAIL, 0}}

TrailerFrame == MakeFrame(SDS_HEADER2, 45, 67, 0, SDS_TAIL)

SdsInputs ==
    [garbage : SeqsUpTo(GarbageBytes, MaxGarbage),
     frame   : CandidateFrames \cup {<< >>},
     trailer : {<< >>, TrailerFrame}]

StreamOf(in) == in.garbage \o in.frame \o in.trailer

----------------------------------------------------------------------------
notSds == <<envVars, webVars, timeVars, connVars, postVars, geigerVars, bmeVars, loopVars>>

(* readSDS, part_001 lines 245-274: one action per way through one          *)
(* iteration of its while loop.                                            *)

(* while (millis() - start < SDS_READ_WINDOW_MS) fails: return false *)
SdsWindowExpired ==
    /\ sdsPc = "scan"
    /\ sdsElapsed >= SDS_READ_WINDOW_MS
    /\ sdsPc' = "ret_false"
    /\ sdsCand' = << >>
    /\ UNCHANGED <<sdsRx, sdsElapsed, pmRead25, pmRead10, pmWritten, sdsIn>>
    /\ UNCHANGED notSds

(* if (!sdsSerial.available()) { delay(2); continue; } *)
SdsPoll ==
    /\ sdsPc = "scan"
    /\ sdsElapsed < SDS_READ_WINDOW_MS
    /\ sdsRx = << >>
    /\ sdsElapsed' = sdsElapsed + SDS_POLL_DELAY_MS
    /\ sdsCand' = << >>
    /\ UNCHANGED <<sdsRx, sdsPc, pmRead25, pmRead10, pmWritten, sdsIn>>
    /\ UNCHANGED notSds

(* the same branch with a sensor that keeps sending: during the delay(2)    *)
(* one or two more bytes reach the receive buffer                          *)
SdsPollBytesArrive ==
    /\ sdsPc = "scan"
    /\ sdsElapsed < SDS_READ_WINDOW_MS
    /\ sdsRx = << >>
    /\ sdsElapsed' = sdsElapsed + SDS_POLL_DELAY_MS
    /\ \E bytes \in SeqsUpTo(GarbageBytes, 2) \ {<< >>} : sdsRx' = bytes
    /\ sdsCand' = << >>
    /\ UNCHANGED <<sdsPc, pmRead25, pmRead10, pmWritten, sdsIn>>
    /\ UNCHANGED notSds

(* a faulty variant of SdsSkipByte: the byte is tested with peek() and stays *)
(* in the buffer                                                            *)
SdsSkipByteKeeps ==
    /\ sdsPc = "scan"
    /\ sdsElapsed < SDS_READ_WINDOW_MS
    /\ sdsRx # << >>
    /\ Head(sdsRx) # SDS_HEADER1
    /\ sdsCand' = << >>
    /\ UNCHANGED <<sdsRx, sdsPc, sdsElapsed, pmRead25, pmRead10, pmWritten, sdsIn>>
    /\ UNCHANGED notSds

(* first = read(); if (first != SDS_HEADER1) continue; *)
SdsSkipByte ==
    /\ sdsPc = "scan"
    /\ sdsElapsed < SDS_READ_WINDOW_MS
    /\ sdsRx # << >>
    /\ Head(sdsRx) # SDS_HEADER1
    /\ sdsRx' = Tail(sdsRx)
    /\ sdsCand' = << >>
    /\ UNCHANGED <<sdsPc, sdsElapsed, pmRead25, pmRead10, pmWritten, sdsIn>>
    /\ UNCHANGED notSds

(* readBytes(buf + 1, 9) returns fewer than 9 bytes after its timeout:      *)
(* the bytes it got are consumed, "incomplete frame, resync".              *)
SdsShortFrame ==
    /\ sdsPc = "scan"
    /\ sdsElapsed < SDS_READ_WINDOW_MS
    /\ sdsRx # << >>
    /\ Head(sdsRx) = SDS_HEADER1
    /\ Len(sdsRx) < SDS_FRAME_LEN
    /\ sdsRx' = << >>
    /\ sdsElapsed' = sdsElapsed + SDS_READ_TIMEOUT_MS
    /\ sdsCand' = << >>
    /\ UNCHANGED <<sdsPc, pmRead25, pmRead10, pmWritten, sdsIn>>
    /\ UNCHANGED notSds

(* a complete candidate that fails the secondary header, tail or checksum   *)
(* test: continue                                                          *)
SdsReject ==
    /\ sdsPc = "scan"
    /\ sdsElapsed < SDS_READ_WINDOW_MS
    /\ Len(sdsRx) >= SDS_FRAME_LEN
    /\ Head(sdsRx) = SDS_HEADER1
    /\ LET buf == SubSeq(sdsRx, 1, SDS_FRAME_LEN)
       IN /\ ~SdsAccepts(buf)
          /\ sdsCand' = buf
    /\ sdsRx' = SubSeq(sdsRx, SDS_FRAME_LEN + 1, Len(sdsRx))
    /\ UNCHANGED <<sdsPc, sdsElapsed, pmRead25, pmRead10, pmWritten, sdsIn>>
    /\ UNCHANGED notSds

(* a complete candidate that passes: decode and return true *)
SdsAccept ==
    /\ sdsPc = "scan"
    /\ sdsElapsed < SDS_READ_WINDOW_MS
    /\ Len(sdsRx) >= SDS_FRAME_LEN
    /\ Head(sdsRx) = SDS_HEADER1
    /\ LET buf == SubSeq(sdsRx, 1, SDS_FRAME_LEN)
       IN /\ SdsAccepts(buf)
          /\ sdsCand' = buf
          /\ pmRead25' = Float10(SdsPm25Raw(buf))
          /\ pmRead10' = Float10(SdsPm10Raw(buf))
    /\ pmWritten' = TRUE
    /\ sdsRx' = SubSeq(sdsRx, SDS_FRAME_LEN + 1, Len(sdsRx))
    /\ sdsPc' = "ret_true"
    /\ UNCHANGED <<sdsElapsed, sdsIn>>
    /\ UNCHANGED notSds

ReadSDSStep ==
    \/ SdsWindowExpired
    \/ SdsPoll
    \/ SdsSkipByte
    \/ SdsShortFrame
    \/ SdsReject
    \/ SdsAccept

----------------------------------------------------------------------------
(* Time trust: bootstrapTimeIfNeeded, trySyncTimeNtp, ensureTimeSynced      *)

(* the literal 1700000000 of lines 92, 111, 129 and 141 *)
TIME_PLAUSIBLE_EPOCH == 1700000000

(* What __DATE__ and __TIME__ of a build can give: they do not parse, they  *)
(* parse to an epoch below the threshold, or to one at or above it.         *)
BuildStamps ==
    {[parses |-> FALSE, epoch |-> 0],
     [parses |-> TRUE, epoch |-> 1699999999],
     [parses |-> TRUE, epoch |-> 1700000000]}

(* What the time servers do during one trySyncTimeNtp: no reply within the  *)
(* 10 s, or a reply that sets the system clock.                             *)
NtpReplies ==
    {[arrives |-> FALSE, epoch |-> 0],
     [arrives |-> TRUE, epoch |-> 1700000500]}

(* a faulty variant of BootstrapTimeIfNeeded: line 92 is missing, the clock *)
(* is set from the build stamp whatever it shows                            *)
BootstrapTimeAlways(t, src, build) ==
    IF ~build.parses THEN [ok |-> FALSE, clock |-> t, src |-> src]
    ELSE IF build.epoch < TIME_PLAUSIBLE_EPOCH THEN [ok |-> FALSE, clock |-> t, src |-> src]
    ELSE [ok |-> TRUE, clock |-> build.epoch, src |-> "build"]

(* bootstrapTimeIfNeeded, lines 90-119 *)
BootstrapTimeIfNeeded(t, src, build) ==
    IF t >= TIME_PLAUSIBLE_EPOCH THEN [ok |-> TRUE, clock |-> t, src |-> src]
    ELSE IF ~build.parses THEN [ok |-> FALSE, clock |-> t, src |-> src]
    ELSE IF build.epoch < TIME_PLAUSIBLE_EPOCH THEN [ok |-> FALSE, clock |-> t, src |-> src]
    ELSE [ok |-> TRUE, clock |-> build.epoch, src |-> "build"]

(* trySyncTimeNtp, lines 121-137: true as soon as getLocalTime succeeds and *)
(* the clock is at or above the threshold, false after 10 s otherwise.      *)
TrySyncTimeNtp(t, src, reply) ==
    LET t2 == IF reply.arrives THEN reply.epoch ELSE t
        s2 == IF reply.arrives THEN "ntp" ELSE src
    IN [ok |-> t2 >= TIME_PLAUSIBLE_EPOCH, clock |-> t2, src |-> s2]

(* a faulty variant of ensureTimeSynced: the result of trySyncTimeNtp is     *)
(* dropped and the function returns true                                    *)
EnsureTimeSyncedDropsNtp(t, src, build, reply) ==
    IF t >= TIME_PLAUSIBLE_EPOCH THEN [ok |-> TRUE, clock |-> t, src |-> src]
    ELSE LET b == BootstrapTimeIfNeeded(t, src, build)
             n == TrySyncTimeNtp(t, src, reply)
         IN IF b.ok THEN b ELSE [ok |-> TRUE, clock |-> n.clock, src |-> n.src]

(* ensureTimeSynced, lines 139-144 *)
EnsureTimeSynced(t, src, build, reply) ==
    IF t >= TIME_PLAUSIBLE_EPOCH THEN [ok |-> TRUE, clock |-> t, src |-> src]
    ELSE LET b == BootstrapTimeIfNeeded(t, src, build)
         IN IF b.ok THEN b ELSE TrySyncTimeNtp(t, src, reply)

----------------------------------------------------------------------------
(* connectWiFi, lines 52-76.  WiFi.status() is an input sampled at each     *)
(* call.  The recursive call of the failure branch restarts the function;   *)
(* when the innermost call returns, every outer call returns after it.      *)

(* the retry ceiling of line 57 *)
WIFI_MAX_RETRIES == 40

WifiStatuses == {"WL_CONNECTED", "WL_DISCONNECTED"}

notConn == <<envVars, webVars, sdsVars, postVars, geigerVars, bmeVars, loopVars>>

(* the nested calls of connectWiFi a run is followed for *)
MaxRounds == 3

(* WiFi.mode; WiFi.begin; int retries = 0; *)
ConnectBegin ==
    /\ connPc = "begin"
    /\ retries' = 0
    /\ linkSeen' = "none"
    /\ rounds' = rounds + 1
    /\ connPc' = "poll"
    /\ UNCHANGED <<connRet, timeVars>>
    /\ UNCHANGED notConn

(* while (WiFi.status() != WL_CONNECTED && retries < 40) { delay(250); retries++; } *)
ConnectPoll ==
    /\ connPc = "poll"
    /\ \E st \in WifiStatuses :
          /\ linkSeen' = st
          /\ IF st # "WL_CONNECTED" /\ retries < WIFI_MAX_RETRIES
             THEN /\ retries' = retries + 1
                  /\ connPc' = "poll"
             ELSE /\ retries' = retries
                  /\ connPc' = "check"
    /\ UNCHANGED <<connRet, rounds, timeVars>>
    /\ UNCHANGED notConn

(* if (WiFi.status() == WL_CONNECTED): DNS, bootstrapTimeIfNeeded(),        *)
(* trySyncTimeNtp(), return; the locals end with the call, and the calls    *)
(* this one is nested in return after it                                    *)
ConnectOk ==
    /\ connPc = "check"
    /\ \E st \in WifiStatuses :
          /\ st = "WL_CONNECTED"
          /\ linkSeen' = st
    /\ \E reply \in NtpReplies :
          LET b == BootstrapTimeIfNeeded(clock, clockSrc, compileTime)
              n == TrySyncTimeNtp(b.clock, b.src, reply)
          IN /\ clock' = n.clock
             /\ clockSrc' = n.src
    /\ connPc' = "idle"
    /\ retries' = 0
    /\ rounds' = 0
    /\ UNCHANGED <<connRet, compileTime>>
    /\ UNCHANGED notConn

(* a faulty variant of ConnectFailed: after the failed round connectWiFi    *)
(* returns instead of calling itself                                        *)
ConnectFailedGivesUp ==
    /\ connPc = "check"
    /\ rounds < MaxRounds
    /\ \E st \in WifiStatuses :
          /\ st # "WL_CONNECTED"
          /\ linkSeen' = st
    /\ connPc' = "idle"
    /\ retries' = 0
    /\ rounds' = 0
    /\ UNCHANGED <<connRet, timeVars>>
    /\ UNCHANGED notConn

(* else: delay(3000); connectWiFi(); *)
ConnectFailed ==
    /\ connPc = "check"
    /\ rounds < MaxRounds
    /\ \E st \in WifiStatuses :
          /\ st # "WL_CONNECTED"
          /\ linkSeen' = st
    /\ connPc' = "begin"
    /\ UNCHANGED <<connRet, retries, rounds, timeVars>>
    /\ UNCHANGED notConn

----------------------------------------------------------------------------
(* postReading, lines 287-356 *)

NODE_ID == "NODE_ID"
NoBody == [device_id |-> "none"]

(* a faulty variant of maxAttempts: one attempt more *)
maxAttemptsOneMore == 4 + 1

(* const int maxAttempts = 4 *)
maxAttempts == 4
(* int backoffMs = 1000 *)
BACKOFF_START_MS == 1000
(* the cap of min(backoffMs * 2, 8000) *)
BACKOFF_CAP_MS == 8000

(* what http.POST can return: a transport error (negative), and statuses    *)
(* on both sides of each end of [200, 300)                                  *)
HttpCodes == {-1, 199, 200, 299, 300}

Min(a, b) == IF a < b THEN a ELSE b

(* a faulty variant of IsSuccess: code > 200 *)
IsSuccessAbove200(c) == c > 200 /\ c < 300

(* code >= 200 && code < 300 *)
IsSuccess(c) == c >= 200 /\ c < 300

(* a faulty variant of NextBackoff: the delay triples *)
NextBackoffTripled(b) == Min(b * 3, BACKOFF_CAP_MS)

(* backoffMs = min(backoffMs * 2, 8000) *)
NextBackoff(b) == Min(b * 2, BACKOFF_CAP_MS)

(* a faulty variant of BuildBody: the document is serialized before its     *)
(* last field is set                                                        *)
BuildBodyNoVoc(a, ok, t) ==
    [device_id |-> NODE_ID,
     timestamp |-> IF ok THEN t ELSE 0,
     radiation_cpm |-> a.radiation,
     pm25 |-> a.pm25,
     air_temp_c |-> a.tempC,
     humidity |-> a.hum,
     pressure_hpa |-> a.press]

(* the StaticJsonDocument of lines 302-311 *)
BuildBody(a, ok, t) ==
    [device_id |-> NODE_ID,
     timestamp |-> IF ok THEN t ELSE 0,
     radiation_cpm |-> a.radiation,
     pm25 |-> a.pm25,
     air_temp_c |-> a.tempC,
     humidity |-> a.hum,
     pressure_hpa |-> a.press,
     voc |-> a.voc]

notPost == <<envVars, webVars, sdsVars, geigerVars, bmeVars, loopVars>>

(* entry of postReading with the arguments a; the caller adds what it does  *)
(* to its own variables.                                                   *)
PostCall(a) ==
    /\ postPc \in {"idle", "done"}
    /\ connPc = "idle"
    /\ postArgs' = a
    /\ postPc' = "wifi"
    /\ timeOk' = FALSE
    /\ reachOk' = FALSE
    /\ reachSeen' = "none"
    /\ beginFailed' = FALSE
    /\ attempt' = 0
    /\ backoffMs' = 0
    /\ body' = NoBody
    /\ sent' = << >>
    /\ code' = 0
    /\ delays' = << >>
    /\ postRet' = "none"
    /\ UNCHANGED <<timeVars, connVars>>

(* line 288: if (WiFi.status() != WL_CONNECTED) connectWiFi(); *)
PostWifiCheck ==
    /\ postPc = "wifi"
    /\ connPc = "idle"
    /\ \E st \in envWifi :
          IF st = "WL_CONNECTED"
          THEN UNCHANGED connVars
          ELSE /\ connPc' = "begin"
               /\ connRet' = "preflight"
               /\ UNCHANGED <<retries, linkSeen, rounds>>
    /\ postPc' = "time"
    /\ UNCHANGED <<postArgs, timeOk, reachOk, reachSeen, beginFailed, attempt, backoffMs, body,
                   sent, code, delays, postRet, timeVars>>
    /\ UNCHANGED notPost

(* line 291: bool timeOk = ensureTimeSynced(); *)
PostEnsureTime ==
    /\ postPc = "time"
    /\ connPc = "idle"
    /\ \E reply \in NtpReplies :
          LET r == EnsureTimeSynced(clock, clockSrc, compileTime, reply)
          IN /\ timeOk' = r.ok
             /\ clock' = r.clock
             /\ clockSrc' = r.src
    /\ postPc' = "reach"
    /\ UNCHANGED <<postArgs, reachOk, reachSeen, beginFailed, attempt, backoffMs, body, sent, code,
                   delays, postRet, compileTime, connVars>>
    /\ UNCHANGED notPost

(* what checkInternetReachable has met: hostByName fails and tcp.connect is *)
(* not tried, or tcp.connect fails, or both succeed                         *)
ReachProgress(dnsOk, tcpOk) ==
    IF ~dnsOk THEN "dns_failed"
    ELSE IF ~tcpOk THEN "tcp_failed"
    ELSE "reachable"

(* a faulty variant of CheckInternetReachable: the TCP connect is not tried *)
CheckInternetReachableDnsOnly(dnsOk, tcpOk) ==
    IF ~dnsOk THEN FALSE
    ELSE TRUE

(* checkInternetReachable, lines 146-165 *)
CheckInternetReachable(dnsOk, tcpOk) ==
    IF ~dnsOk THEN FALSE
    ELSE IF ~tcpOk THEN FALSE
    ELSE TRUE

(* lines 293-296: the reachability check fails, return false *)
PostUnreachable ==
    /\ postPc = "reach"
    /\ \E dnsOk \in BOOLEAN, tcpOk \in BOOLEAN :
          /\ ~CheckInternetReachable(dnsOk, tcpOk)
          /\ reachOk' = FALSE
          /\ reachSeen' = ReachProgress(dnsOk, tcpOk)
    /\ postRet' = "false"
    /\ postPc' = "done"
    /\ UNCHANGED <<postArgs, timeOk, beginFailed, attempt, backoffMs, body, sent, code,
                   delays, timeVars, connVars>>
    /\ UNCHANGED notPost

(* the reachability check passes *)
PostReachable ==
    /\ postPc = "reach"
    /\ \E dnsOk \in BOOLEAN, tcpOk \in BOOLEAN :
          /\ CheckInternetReachable(dnsOk, tcpOk)
          /\ reachOk' = TRUE
          /\ reachSeen' = ReachProgress(dnsOk, tcpOk)
    /\ postPc' = "gate"
    /\ UNCHANGED <<postArgs, timeOk, beginFailed, attempt, backoffMs, body, sent, code,
                   delays, postRet, timeVars, connVars>>
    /\ UNCHANGED notPost

(* a faulty variant of PostTimeNotSynced: instead of giving the cycle up,   *)
(* postReading goes back to ensureTimeSynced until the time is trusted      *)
PostTimeNotSyncedWaits ==
    /\ postPc = "gate"
    /\ ~timeOk
    /\ postPc' = "time"
    /\ UNCHANGED <<postArgs, timeOk, reachOk, reachSeen, beginFailed, attempt, backoffMs, body,
                   sent, code, delays, postRet, timeVars, connVars>>
    /\ UNCHANGED notPost

(* lines 297-300: if (!timeOk) return false *)
PostTimeNotSynced ==
    /\ postPc = "gate"
    /\ ~timeOk
    /\ postRet' = "false"
    /\ postPc' = "done"
    /\ UNCHANGED <<postArgs, timeOk, reachOk, reachSeen, beginFailed, attempt, backoffMs, body,
                   sent, code, delays, timeVars, connVars>>
    /\ UNCHANGED notPost

(* lines 302-320: build and serialize the document, enter the for loop *)
PostBuild ==
    /\ postPc = "gate"
    /\ timeOk
    /\ body' = BuildBody(postArgs, timeOk, clock)
    /\ backoffMs' = BACKOFF_START_MS
    /\ attempt' = 1
    /\ postPc' = "attempt"
    /\ UNCHANGED <<postArgs, timeOk, reachOk, reachSeen, beginFailed, sent, code, delays, postRet,
                   timeVars, connVars>>
    /\ UNCHANGED notPost

(* line 320 fails: attempt <= maxAttempts is false, line 355 return false *)
PostExhausted ==
    /\ postPc = "attempt"
    /\ connPc = "idle"
    /\ ~(attempt <= maxAttempts)
    /\ postRet' = "false"
    /\ postPc' = "done"
    /\ UNCHANGED <<postArgs, timeOk, reachOk, reachSeen, beginFailed, attempt, backoffMs, body,
                   sent, code, delays, timeVars, connVars>>
    /\ UNCHANGED notPost

(* line 321: if (WiFi.status() != WL_CONNECTED) connectWiFi(); *)
PostAttemptWifi ==
    /\ postPc = "attempt"
    /\ connPc = "idle"
    /\ attempt <= maxAttempts
    /\ \E st \in envWifi :
          IF st = "WL_CONNECTED"
          THEN UNCHANGED connVars
          ELSE /\ connPc' = "begin"
               /\ connRet' = "attempt"
               /\ UNCHANGED <<retries, linkSeen, rounds>>
    /\ postPc' = "begin"
    /\ UNCHANGED <<postArgs, timeOk, reachOk, reachSeen, beginFailed, attempt, backoffMs, body,
                   sent, code, delays, postRet, timeVars>>
    /\ UNCHANGED notPost

(* lines 328-331: beginHttps returns false (empty host, or http.begin       *)
(* refuses): return false                                                  *)
PostBeginFailed ==
    /\ postPc = "begin"
    /\ connPc = "idle"
    /\ beginFailed' = TRUE
    /\ postRet' = "false"
    /\ postPc' = "done"
    /\ UNCHANGED <<postArgs, timeOk, reachOk, reachSeen, attempt, backoffMs, body, sent, code,
                   delays, timeVars, connVars>>
    /\ UNCHANGED notPost

(* lines 335-343: http.POST(body) returns a code in [200, 300): return true *)
PostSucceeded ==
    /\ postPc = "begin"
    /\ connPc = "idle"
    /\ \E c \in envCodes :
          /\ IsSuccess(c)
          /\ code' = c
    /\ sent' = Append(sent, body)
    /\ postRet' = "true"
    /\ postPc' = "done"
    /\ UNCHANGED <<postArgs, timeOk, reachOk, reachSeen, beginFailed, attempt, backoffMs, body,
                   delays, timeVars, connVars>>
    /\ UNCHANGED notPost

(* lines 335-353: http.POST(body) returns another code: back off unless     *)
(* this was the last attempt, then attempt++                               *)
PostFailed ==
    /\ postPc = "begin"
    /\ connPc = "idle"
    /\ \E c \in envCodes :
          /\ ~IsSuccess(c)
          /\ code' = c
    /\ sent' = Append(sent, body)
    /\ IF attempt < maxAttempts
       THEN /\ delays' = Append(delays, backoffMs)
            /\ backoffMs' = NextBackoff(backoffMs)
       ELSE UNCHANGED <<delays, backoffMs>>
    /\ attempt' = attempt + 1
    /\ postPc' = "attempt"
    /\ UNCHANGED <<postArgs, timeOk, reachOk, reachSeen, beginFailed, body, postRet, timeVars,
                   connVars>>
    /\ UNCHANGED notPost

----------------------------------------------------------------------------
(* millis() and the unsigned long arithmetic on it.  The counter has 32     *)
(* bits in the firmware; the model scales the modulus down with the rest    *)
(* of the time values.                                                      *)

MILLIS_MOD == 64

ULAdd(a, d) == (a + d) % MILLIS_MOD
ULSub(a, b) == (a - b + MILLIS_MOD) % MILLIS_MOD

(* config.h values, each scaled down *)
SEND_INTERVAL_MS == 2
GEIGER_WINDOW_MS == 3
GEIGER_CPM_PER_USVH == 153
BME_POST_CONFIG_DELAY_MS == 1
SDS_WARMUP_MS == 2
SDS_NO_FRAME_HINT_GRACE_MS == 2
BME680_I2C_ADDR == 119
BME680_I2C_ADDR_ALT == 118
(* the literal 10000 of lines 388 and 404, scaled down *)
BME_RETRY_MS == 4

(* Bounds of the run *)
MaxUptime == 9
MaxPulses == 3
MaxJitter == 1

(* A resistance in Ohm, a float of the program: zero, or sign * 10^(log8/8). *)
(* On this grid of eighths of a decade log10(gasOhms) * 80.0f is the        *)
(* integer 10 * log8, and the values below 1 Ohm and above 10^9.375 Ohm,   *)
(* where gasToVoc clamps, are there.                                        *)
GasZero == [sign |-> 0, log8 |-> 0]

GasPow10(k) == [sign |-> 1, log8 |-> 8 * k]

(* a faulty variant of Log10x8: the logarithm with its sign turned *)
Log10x8Negated(g) == 0 - g.log8

(* log10(gasOhms), line 237, in eighths *)
Log10x8(g) == g.log8

(* a faulty variant of gasToVoc: the cap of line 240 is missing *)
gasToVocNoCap(gasOhms) ==
    IF gasOhms.sign <= 0 THEN 150
    ELSE LET voc == 50 + (Log10x8(gasOhms) * 80) \div 8
         IN IF voc < 50 THEN 50 ELSE voc

(* gasToVoc, lines 234-243 *)
gasToVoc(gasOhms) ==
    IF gasOhms.sign <= 0 THEN 150
    ELSE LET voc == 50 + (Log10x8(gasOhms) * 80) \div 8
         IN IF voc < 50 THEN 50 ELSE IF voc > 800 THEN 800 ELSE voc

(* the values of the locals of loop outside an iteration, and of the        *)
(* variables of postReading outside a call                                  *)
NoStream == [garbage |-> << >>, frame |-> << >>, trailer |-> << >>]
NoArgs == [radiation |-> [n |-> 0, d |-> 1], pm25 |-> Float10(0), tempC |-> 0, hum |-> 0,
           press |-> 0, voc |-> 0]

LocalsGone ==
    /\ tempC = 0 /\ hum = 0 /\ press = 0 /\ gas = GasZero
    /\ pm25 = Float10(0) /\ pm10 = Float10(0)
    /\ sdsWarming = FALSE
    /\ radiationUsvh = [n |-> 0, d |-> 1]

PostIdle ==
    /\ postPc = "idle"
    /\ postArgs = NoArgs
    /\ timeOk = FALSE
    /\ reachOk = FALSE
    /\ reachSeen = "none"
    /\ beginFailed = FALSE
    /\ attempt = 0
    /\ backoffMs = 0
    /\ body = NoBody
    /\ sent = << >>
    /\ code = 0
    /\ delays = << >>
    /\ postRet = "none"

----------------------------------------------------------------------------
(* Pulse counter: onGeigerPulse, lines 46-50, and the window close of loop, *)
(* lines 450-463.  The handler runs on the core that runs loop: it runs to  *)
(* completion once started, and cannot start while loop holds geigerMux     *)
(* (portENTER_CRITICAL masks the interrupts).                               *)

notGeiger == <<envVars, webVars, sdsVars, timeVars, connVars, postVars, bmeVars>>

(* a faulty variant of IsrMayRun: loop reads and clears the counter without *)
(* the critical section, so the handler may run between the two            *)
IsrMayRunUnmasked == geigerMux \in {"free", "loop"}

(* whether the handler may be entered: the critical section is free *)
IsrMayRun == geigerMux = "free"

onGeigerPulse ==
    /\ IsrMayRun
    /\ isrTotal < envPulses
    /\ geigerPulses' = geigerPulses + 1
    /\ isrTotal' = isrTotal + 1
    /\ misfiled' = IF loopPc = "g_enter" THEN misfiled + 1 ELSE misfiled
    /\ UNCHANGED <<geigerWindowStart, geigerMux, pulses, now, consumedTotal>>
    /\ UNCHANGED <<notGeiger, loopVars>>

(* a faulty variant of RadiationOf: counts per second, not per minute *)
RadiationOfPerSecond(p) == [n |-> p * 1000, d |-> GEIGER_WINDOW_MS * GEIGER_CPM_PER_USVH]

(* float cpm = (pulses * 60000.0f) / GEIGER_WINDOW_MS;                      *)
(* radiationUsvh = cpm / GEIGER_CPM_PER_USVH;  as a fraction                *)
RadiationOf(p) == [n |-> p * 60000, d |-> GEIGER_WINDOW_MS * GEIGER_CPM_PER_USVH]

(* lines 450-452 with the window still open *)
LoopWindowOpen ==
    /\ loopPc = "geiger"
    /\ ~(ULSub(ms, geigerWindowStart) >= GEIGER_WINDOW_MS)
    /\ now' = ms
    /\ radiationUsvh' = lastRadiationUsvh
    /\ loopPc' = "post_call"
    /\ UNCHANGED <<geigerPulses, geigerWindowStart, geigerMux, pulses, isrTotal,
                   consumedTotal, misfiled>>
    /\ UNCHANGED <<ms, lastVars, sdsGateVars, tempC, hum, press, gas, pm25, pm10,
                   sdsWarming, sdsOk, sdsLog, lastAtTop>>
    /\ UNCHANGED notGeiger

(* lines 451-452: unsigned long now = millis(); the window has elapsed *)
LoopWindowElapsed ==
    /\ loopPc = "geiger"
    /\ ULSub(ms, geigerWindowStart) >= GEIGER_WINDOW_MS
    /\ now' = ms
    /\ radiationUsvh' = lastRadiationUsvh
    /\ loopPc' = "g_enter"
    /\ UNCHANGED <<geigerPulses, geigerWindowStart, geigerMux, pulses, isrTotal,
                   consumedTotal, misfiled>>
    /\ UNCHANGED <<ms, lastVars, sdsGateVars, tempC, hum, press, gas, pm25, pm10,
                   sdsWarming, sdsOk, sdsLog, lastAtTop>>
    /\ UNCHANGED notGeiger

(* a faulty variant of GeigerEnter: the critical section is not entered *)
GeigerEnterNoLock ==
    /\ loopPc = "g_enter"
    /\ pulses' = 0
    /\ loopPc' = "g_read"
    /\ UNCHANGED <<geigerPulses, geigerWindowStart, geigerMux, now, isrTotal,
                   consumedTotal, misfiled>>
    /\ UNCHANGED <<ms, lastVars, sdsGateVars, localVars, sdsOk, sdsLog, lastAtTop>>
    /\ UNCHANGED notGeiger

(* lines 453-454: uint32_t pulses = 0; portENTER_CRITICAL(&geigerMux); the  *)
(* handler can run until the interrupts are masked here                     *)
GeigerEnter ==
    /\ loopPc = "g_enter"
    /\ pulses' = 0
    /\ geigerMux' = "loop"
    /\ loopPc' = "g_read"
    /\ UNCHANGED <<geigerPulses, geigerWindowStart, now, isrTotal, consumedTotal,
                   misfiled>>
    /\ UNCHANGED <<ms, lastVars, sdsGateVars, localVars, sdsOk, sdsLog, lastAtTop>>
    /\ UNCHANGED notGeiger

(* line 455: pulses = geigerPulses; *)
GeigerRead ==
    /\ loopPc = "g_read"
    /\ pulses' = geigerPulses
    /\ loopPc' = "g_clear"
    /\ UNCHANGED <<geigerPulses, geigerWindowStart, geigerMux, now, isrTotal,
                   consumedTotal, misfiled>>
    /\ UNCHANGED <<ms, lastVars, sdsGateVars, localVars, sdsOk, sdsLog, lastAtTop>>
    /\ UNCHANGED notGeiger

(* a faulty variant of GeigerClear: the counter keeps its value, and the    *)
(* next close reads the same pulses again                                  *)
GeigerClearSkipped ==
    /\ loopPc = "g_clear"
    /\ loopPc' = "g_exit"
    /\ UNCHANGED <<geigerPulses, geigerWindowStart, geigerMux, pulses, now, isrTotal,
                   consumedTotal, misfiled>>
    /\ UNCHANGED <<ms, lastVars, sdsGateVars, localVars, sdsOk, sdsLog, lastAtTop>>
    /\ UNCHANGED notGeiger

(* line 456: geigerPulses = 0; *)
GeigerClear ==
    /\ loopPc = "g_clear"
    /\ geigerPulses' = 0
    /\ loopPc' = "g_exit"
    /\ UNCHANGED <<geigerWindowStart, geigerMux, pulses, now, isrTotal, consumedTotal, misfiled>>
    /\ UNCHANGED <<ms, lastVars, sdsGateVars, localVars, sdsOk, sdsLog, lastAtTop>>
    /\ UNCHANGED notGeiger

(* lines 457-462: portEXIT_CRITICAL; the rate; geigerWindowStart = now; *)
GeigerExit ==
    /\ loopPc = "g_exit"
    /\ geigerMux' = "free"
    /\ radiationUsvh' = RadiationOf(pulses)
    /\ lastRadiationUsvh' = RadiationOf(pulses)
    /\ geigerWindowStart' = now
    /\ consumedTotal' = consumedTotal + pulses
    /\ UNCHANGED misfiled
    /\ loopPc' = "post_call"
    /\ UNCHANGED <<geigerPulses, pulses, now, isrTotal>>
    /\ UNCHANGED <<ms, lastPm25, lastPm10, lastTempC, lastHum, lastPress, lastGas,
                   sdsGateVars, tempC, hum, press, gas, pm25, pm10, sdsWarming, sdsOk,
                   sdsLog, lastAtTop>>
    /\ UNCHANGED notGeiger

----------------------------------------------------------------------------
(* Environmental sensor: initBME, lines 197-220, and readBME, lines 222-232 *)

BmeAddrs == <<BME680_I2C_ADDR, BME680_I2C_ADDR_ALT>>

(* initBME with the sensor answering at the addresses of `present`: the     *)
(* addresses probed, in order, until bme.begin(addr) succeeds               *)
RECURSIVE ProbeFrom(_, _)
ProbeFrom(i, present) ==
    IF i > Len(BmeAddrs) THEN [found |-> FALSE, addr |-> 0, probes |-> << >>]
    ELSE IF BmeAddrs[i] = 0 THEN ProbeFrom(i + 1, present)
    ELSE IF BmeAddrs[i] \in present
         THEN [found |-> TRUE, addr |-> BmeAddrs[i], probes |-> <<BmeAddrs[i]>>]
         ELSE LET rest == ProbeFrom(i + 1, present)
              IN [rest EXCEPT !.probes = <<BmeAddrs[i]>> \o rest.probes]

(* a faulty variant of initBME: only the primary address is probed *)
initBMEPrimaryOnly(present) ==
    IF BME680_I2C_ADDR \in present
    THEN [found |-> TRUE, addr |-> BME680_I2C_ADDR, probes |-> <<BME680_I2C_ADDR>>]
    ELSE [found |-> FALSE, addr |-> 0, probes |-> <<BME680_I2C_ADDR>>]

initBME(present) == ProbeFrom(1, present)

BmePresence == SUBSET {BME680_I2C_ADDR, BME680_I2C_ADDR_ALT}

(* what bme.performReading() leaves in the driver when it succeeds *)
BmeSamples ==
    {[temperature |-> 25, humidity |-> 50, pressure |-> 100000, gas_resistance |-> GasPow10(7)],
     [temperature |-> 26, humidity |-> 40, pressure |-> 101300, gas_resistance |-> GasPow10(0)]}

(* readBME's assignments: press = bme.pressure / 100.0f (Pa -> hPa) *)
BmePress(s) == s.pressure \div 100

----------------------------------------------------------------------------
(* setup, lines 358-394.  The initial state is the one at line 379: the     *)
(* time marks are set, the interrupt is attached, connectWiFi is called.    *)

LastNow == [pm25 |-> lastPm25, pm10 |-> lastPm10, tempC |-> lastTempC, hum |-> lastHum,
            press |-> lastPress, gas |-> lastGas]

notLoop == <<envVars, webVars, timeVars, connVars, postVars, geigerVars>>

(* lines 380-393 after connectWiFi has returned: setupTime, the flush of    *)
(* sdsSerial, initBME                                                      *)
SetupAfterWiFi ==
    /\ loopPc = "setup_wifi"
    /\ connPc = "idle"
    /\ sdsRx' = << >>
    /\ \E present \in BmePresence, took \in envTook :
          LET r == initBME(present)
              t == ULAdd(ms, took)
          IN /\ bmeProbes' = r.probes
             /\ IF ~r.found
                THEN /\ bmeRetryAt' = ULAdd(t, BME_RETRY_MS)
                     /\ ms' = t
                     /\ UNCHANGED <<bmeReady, bmeWarmupUntil, bmeAddrInUse>>
                ELSE /\ ms' = ULAdd(t, BME_POST_CONFIG_DELAY_MS)
                     /\ bmeWarmupUntil' = ULAdd(t, BME_POST_CONFIG_DELAY_MS)
                     /\ bmeReady' = TRUE
                     /\ bmeAddrInUse' = r.addr
                     /\ UNCHANGED bmeRetryAt
    /\ loopPc' = "top"
    /\ UNCHANGED <<bmeOk, lastVars, sdsGateVars, localVars, sdsOk, sdsLog, lastAtTop>>
    /\ UNCHANGED <<sdsPc, sdsElapsed, pmRead25, pmRead10, pmWritten, sdsCand, sdsIn>>
    /\ UNCHANGED notLoop

----------------------------------------------------------------------------
(* loop, lines 396-468 *)

(* lines 399-410 with the retry due: i2cScan, bmeReady = initBME() *)
LoopBmeRetry ==
    /\ loopPc = "top"
    /\ ~bmeReady /\ ms >= bmeRetryAt
    /\ \E present \in BmePresence :
          LET r == initBME(present)
          IN /\ bmeProbes' = r.probes
             /\ bmeReady' = r.found
             /\ IF ~r.found
                THEN /\ bmeRetryAt' = ULAdd(ms, BME_RETRY_MS)
                     /\ UNCHANGED <<ms, bmeWarmupUntil, bmeAddrInUse>>
                ELSE /\ ms' = ULAdd(ms, BME_POST_CONFIG_DELAY_MS)
                     /\ bmeWarmupUntil' = ULAdd(ms, BME_POST_CONFIG_DELAY_MS)
                     /\ bmeAddrInUse' = r.addr
                     /\ UNCHANGED bmeRetryAt
    /\ loopPc' = "bme_read"
    /\ bmeOk' = "not_called"
    /\ sdsOk' = FALSE
    /\ sdsLog' = "none"
    /\ lastAtTop' = LastNow
    /\ UNCHANGED <<lastVars, sdsGateVars, localVars>>
    /\ UNCHANGED <<sdsVars, notLoop>>

(* lines 399-410 with no retry due *)
LoopBmeNoRetry ==
    /\ loopPc = "top"
    /\ ~(~bmeReady /\ ms >= bmeRetryAt)
    /\ loopPc' = "bme_read"
    /\ bmeOk' = "not_called"
    /\ sdsOk' = FALSE
    /\ sdsLog' = "none"
    /\ lastAtTop' = LastNow
    /\ UNCHANGED <<bmeReady, bmeRetryAt, bmeWarmupUntil, bmeAddrInUse, bmeProbes>>
    /\ UNCHANGED <<ms, lastVars, sdsGateVars, localVars>>
    /\ UNCHANGED <<sdsVars, notLoop>>

(* a faulty variant of LoopBmeReadOk: readBME is called whatever the state  *)
(* of the sensor                                                            *)
LoopBmeReadOkUngated ==
    /\ loopPc = "bme_read"
    /\ \E s \in BmeSamples :
          /\ tempC' = s.temperature
          /\ hum' = s.humidity
          /\ press' = BmePress(s)
          /\ gas' = s.gas_resistance
          /\ lastTempC' = s.temperature
          /\ lastHum' = s.humidity
          /\ lastPress' = BmePress(s)
          /\ lastGas' = s.gas_resistance
    /\ bmeOk' = "ok"
    /\ loopPc' = "sds_call"
    /\ UNCHANGED <<bmeReady, bmeRetryAt, bmeWarmupUntil, bmeAddrInUse, bmeProbes>>
    /\ UNCHANGED <<ms, lastPm25, lastPm10, lastRadiationUsvh, sdsGateVars, pm25, pm10,
                   sdsWarming, radiationUsvh, sdsOk, sdsLog, lastAtTop>>
    /\ UNCHANGED <<sdsVars, notLoop>>

(* lines 412-417: the sensor is ready and warm and readBME returns true *)
LoopBmeReadOk ==
    /\ loopPc = "bme_read"
    /\ bmeReady /\ ms >= bmeWarmupUntil
    /\ \E s \in BmeSamples :
          /\ tempC' = s.temperature
          /\ hum' = s.humidity
          /\ press' = BmePress(s)
          /\ gas' = s.gas_resistance
          /\ lastTempC' = s.temperature
          /\ lastHum' = s.humidity
          /\ lastPress' = BmePress(s)
          /\ lastGas' = s.gas_resistance
    /\ bmeOk' = "ok"
    /\ loopPc' = "sds_call"
    /\ UNCHANGED <<bmeReady, bmeRetryAt, bmeWarmupUntil, bmeAddrInUse, bmeProbes>>
    /\ UNCHANGED <<ms, lastPm25, lastPm10, lastRadiationUsvh, sdsGateVars, pm25, pm10,
                   sdsWarming, radiationUsvh, sdsOk, sdsLog, lastAtTop>>
    /\ UNCHANGED <<sdsVars, notLoop>>

(* a faulty variant of LoopBmeReadFailed: the failed read sends the sensor  *)
(* back to initialization                                                   *)
LoopBmeReadFailedReinits ==
    /\ loopPc = "bme_read"
    /\ bmeReady /\ ms >= bmeWarmupUntil
    /\ tempC' = lastTempC
    /\ hum' = lastHum
    /\ press' = lastPress
    /\ gas' = lastGas
    /\ bmeOk' = "failed"
    /\ loopPc' = "sds_call"
    /\ bmeReady' = FALSE
    /\ bmeRetryAt' = ULAdd(ms, BME_RETRY_MS)
    /\ UNCHANGED <<bmeWarmupUntil, bmeAddrInUse, bmeProbes>>
    /\ UNCHANGED <<ms, lastVars, sdsGateVars, pm25, pm10, sdsWarming, radiationUsvh,
                   sdsOk, sdsLog, lastAtTop>>
    /\ UNCHANGED <<sdsVars, notLoop>>

(* lines 412-422: the sensor is ready and warm, bme.performReading() fails, *)
(* readBME returns false with its parameters untouched                      *)
LoopBmeReadFailed ==
    /\ loopPc = "bme_read"
    /\ bmeReady /\ ms >= bmeWarmupUntil
    /\ tempC' = lastTempC
    /\ hum' = lastHum
    /\ press' = lastPress
    /\ gas' = lastGas
    /\ bmeOk' = "failed"
    /\ loopPc' = "sds_call"
    /\ UNCHANGED <<bmeReady, bmeRetryAt, bmeWarmupUntil, bmeAddrInUse, bmeProbes>>
    /\ UNCHANGED <<ms, lastVars, sdsGateVars, pm25, pm10, sdsWarming, radiationUsvh,
                   sdsOk, sdsLog, lastAtTop>>
    /\ UNCHANGED <<sdsVars, notLoop>>

(* a faulty variant of LoopBmeNotRead: the iteration goes on at the pulse   *)
(* window, without the call of readSDS                                      *)
LoopBmeNotReadSkipsSds ==
    /\ loopPc = "bme_read"
    /\ ~(bmeReady /\ ms >= bmeWarmupUntil)
    /\ tempC' = lastTempC
    /\ hum' = lastHum
    /\ press' = lastPress
    /\ gas' = lastGas
    /\ bmeOk' = "not_called"
    /\ loopPc' = "geiger"
    /\ UNCHANGED <<bmeReady, bmeRetryAt, bmeWarmupUntil, bmeAddrInUse, bmeProbes>>
    /\ UNCHANGED <<ms, lastVars, sdsGateVars, pm25, pm10, sdsWarming, radiationUsvh,
                   sdsOk, sdsLog, lastAtTop>>
    /\ UNCHANGED <<sdsVars, notLoop>>

(* lines 412-422: the sensor is not ready or still warming: readBME is not  *)
(* called                                                                   *)
LoopBmeNotRead ==
    /\ loopPc = "bme_read"
    /\ ~(bmeReady /\ ms >= bmeWarmupUntil)
    /\ tempC' = lastTempC
    /\ hum' = lastHum
    /\ press' = lastPress
    /\ gas' = lastGas
    /\ bmeOk' = "not_called"
    /\ loopPc' = "sds_call"
    /\ UNCHANGED <<bmeReady, bmeRetryAt, bmeWarmupUntil, bmeAddrInUse, bmeProbes>>
    /\ UNCHANGED <<ms, lastVars, sdsGateVars, pm25, pm10, sdsWarming, radiationUsvh,
                   sdsOk, sdsLog, lastAtTop>>
    /\ UNCHANGED <<sdsVars, notLoop>>

(* the UART receive buffer of sdsSerial, scaled down *)
SDS_RX_CAPACITY == 21

(* lines 424-428: the locals, and the call of readSDS; the bytes the sensor *)
(* sent since the last call are in the receive buffer                       *)
LoopSdsCall ==
    /\ loopPc = "sds_call"
    /\ pm25' = lastPm25
    /\ pm10' = lastPm10
    /\ pmRead25' = Float10(0)
    /\ pmRead10' = Float10(0)
    /\ sdsWarming' = (ms < sdsWarmupUntil)
    /\ \E in \in envSds :
          /\ Len(sdsRx) + Len(StreamOf(in)) <= SDS_RX_CAPACITY
          /\ sdsIn' = in
          /\ sdsRx' = sdsRx \o StreamOf(in)
    /\ sdsPc' = "scan"
    /\ sdsElapsed' = 0
    /\ pmWritten' = FALSE
    /\ sdsCand' = << >>
    /\ loopPc' = "sds_run"
    /\ UNCHANGED <<ms, lastVars, sdsGateVars, tempC, hum, press, gas, radiationUsvh,
                   sdsOk, sdsLog, lastAtTop>>
    /\ UNCHANGED <<bmeVars, notLoop>>

(* lines 428-435: readSDS returned true *)
LoopSdsGood ==
    /\ loopPc = "sds_run"
    /\ sdsPc = "ret_true"
    /\ ms' = ULAdd(ms, sdsElapsed)
    /\ pm25' = pmRead25
    /\ pm10' = pmRead10
    /\ lastPm25' = pmRead25
    /\ lastPm10' = pmRead10
    /\ sdsNoFrameHintAt' = ULAdd(ULAdd(ms, sdsElapsed), SDS_NO_FRAME_HINT_GRACE_MS)
    /\ sdsHintShown' = FALSE
    /\ sdsLines' = 0
    /\ sdsOk' = TRUE
    /\ sdsPc' = "idle"
    /\ loopPc' = "geiger"
    /\ UNCHANGED <<lastTempC, lastHum, lastPress, lastGas, lastRadiationUsvh,
                   sdsWarmupUntil, tempC, hum, press, gas, sdsWarming, radiationUsvh,
                   sdsLog, lastAtTop>>
    /\ sdsElapsed' = 0
    /\ pmWritten' = FALSE
    /\ sdsCand' = << >>
    /\ UNCHANGED <<sdsRx, pmRead25, pmRead10, sdsIn>>
    /\ UNCHANGED <<bmeVars, notLoop>>

(* the lines a diagnostic adds to the failure reports made after warmup *)
SdsLinesOf(log) == IF log \in {"hint", "failed"} THEN 1 ELSE 0

(* the diagnostic of lines 436-447 at time t *)
SdsFailureLog(t) ==
    IF sdsWarming THEN "warming"
    ELSE IF ~sdsHintShown /\ t > sdsNoFrameHintAt THEN "hint"
    ELSE IF ~sdsWarming /\ t > sdsWarmupUntil THEN "failed"
    ELSE "quiet"

(* a faulty variant of LoopSdsBad: lines 429-432 run whatever readSDS       *)
(* returned, and store the unwritten pmRead25 and pmRead10                 *)
LoopSdsBadStoresRead ==
    /\ loopPc = "sds_run"
    /\ sdsPc = "ret_false"
    /\ ms' = ULAdd(ms, sdsElapsed)
    /\ sdsLog' = SdsFailureLog(ULAdd(ms, sdsElapsed))
    /\ sdsHintShown' = (sdsHintShown \/ SdsFailureLog(ULAdd(ms, sdsElapsed)) = "hint")
    /\ sdsLines' = sdsLines + SdsLinesOf(SdsFailureLog(ULAdd(ms, sdsElapsed)))
    /\ sdsOk' = FALSE
    /\ sdsPc' = "idle"
    /\ loopPc' = "geiger"
    /\ pm25' = pmRead25
    /\ pm10' = pmRead10
    /\ lastPm25' = pmRead25
    /\ lastPm10' = pmRead10
    /\ UNCHANGED <<lastTempC, lastHum, lastPress, lastGas, lastRadiationUsvh,
                   sdsWarmupUntil, sdsNoFrameHintAt, tempC, hum, press, gas, sdsWarming,
                   radiationUsvh, lastAtTop>>
    /\ sdsElapsed' = 0
    /\ pmWritten' = FALSE
    /\ sdsCand' = << >>
    /\ UNCHANGED <<sdsRx, pmRead25, pmRead10, sdsIn>>
    /\ UNCHANGED <<bmeVars, notLoop>>

(* lines 428, 436-447: readSDS returned false *)
LoopSdsBad ==
    /\ loopPc = "sds_run"
    /\ sdsPc = "ret_false"
    /\ ms' = ULAdd(ms, sdsElapsed)
    /\ sdsLog' = SdsFailureLog(ULAdd(ms, sdsElapsed))
    /\ sdsHintShown' = (sdsHintShown \/ SdsFailureLog(ULAdd(ms, sdsElapsed)) = "hint")
    /\ sdsLines' = sdsLines + SdsLinesOf(SdsFailureLog(ULAdd(ms, sdsElapsed)))
    /\ sdsOk' = FALSE
    /\ sdsPc' = "idle"
    /\ loopPc' = "geiger"
    /\ UNCHANGED <<lastVars, sdsWarmupUntil, sdsNoFrameHintAt, localVars, lastAtTop>>
    /\ sdsElapsed' = 0
    /\ pmWritten' = FALSE
    /\ sdsCand' = << >>
    /\ UNCHANGED <<sdsRx, pmRead25, pmRead10, sdsIn>>
    /\ UNCHANGED <<bmeVars, notLoop>>

(* lines 464-466: float voc = gasToVoc(gas); postReading(...) *)
LoopPost ==
    /\ loopPc = "post_call"
    /\ PostCall([radiation |-> radiationUsvh, pm25 |-> pm25, tempC |-> tempC,
                 hum |-> hum, press |-> press, voc |-> gasToVoc(gas)])
    /\ loopPc' = "post_run"
    /\ UNCHANGED <<ms, lastVars, sdsGateVars, localVars, sdsOk, sdsLog, lastAtTop>>
    /\ UNCHANGED <<envVars, webVars, sdsVars, geigerVars, bmeVars>>

(* line 467 after postReading has returned: delay(SEND_INTERVAL_MS); the    *)
(* time the cycle's network calls took is added here; the locals of the     *)
(* iteration and of postReading end with it, and so does the history of the *)
(* iteration                                                                *)
LoopSleep ==
    /\ loopPc = "post_run"
    /\ postPc = "done"
    /\ \E took \in envTook :
          /\ ms + SEND_INTERVAL_MS + took <= MaxUptime
          /\ ms' = ULAdd(ms, SEND_INTERVAL_MS + took)
    /\ loopPc' = "top"
    /\ tempC' = 0 /\ hum' = 0 /\ press' = 0 /\ gas' = GasZero
    /\ pm25' = Float10(0) /\ pm10' = Float10(0)
    /\ sdsWarming' = FALSE
    /\ radiationUsvh' = [n |-> 0, d |-> 1]
    /\ postPc' = "idle"
    /\ postArgs' = NoArgs
    /\ timeOk' = FALSE
    /\ reachOk' = FALSE
    /\ reachSeen' = "none"
    /\ beginFailed' = FALSE
    /\ attempt' = 0
    /\ backoffMs' = 0
    /\ body' = NoBody
    /\ sent' = << >>
    /\ code' = 0
    /\ delays' = << >>
    /\ postRet' = "none"
    /\ pmRead25' = Float10(0)
    /\ pmRead10' = Float10(0)
    /\ pulses' = 0
    /\ now' = 0
    /\ sdsOk' = FALSE
    /\ sdsLog' = "none"
    /\ bmeOk' = "not_called"
    /\ lastAtTop' = LastNow
    /\ UNCHANGED <<lastVars, sdsGateVars>>
    /\ sdsIn' = NoStream
    /\ UNCHANGED <<sdsRx, sdsPc, sdsElapsed, pmWritten, sdsCand>>
    /\ UNCHANGED <<geigerPulses, geigerWindowStart, geigerMux, isrTotal, consumedTotal, misfiled>>
    /\ UNCHANGED <<bmeReady, bmeRetryAt, bmeWarmupUntil, bmeAddrInUse, bmeProbes>>
    /\ UNCHANGED <<envVars, webVars, timeVars, connVars>>

(* line 467 in a run that goes on for as long as the device is powered:   *)
(* millis() wraps to 0 at MILLIS_MOD                                        *)
LoopSleepOn ==
    /\ loopPc = "post_run"
    /\ postPc = "done"
    /\ \E took \in envTook :
          /\ ms' = ULAdd(ms, SEND_INTERVAL_MS + took)
    /\ loopPc' = "top"
    /\ tempC' = 0 /\ hum' = 0 /\ press' = 0 /\ gas' = GasZero
    /\ pm25' = Float10(0) /\ pm10' = Float10(0)
    /\ sdsWarming' = FALSE
    /\ radiationUsvh' = [n |-> 0, d |-> 1]
    /\ postPc' = "idle"
    /\ postArgs' = NoArgs
    /\ timeOk' = FALSE
    /\ reachOk' = FALSE
    /\ reachSeen' = "none"
    /\ beginFailed' = FALSE
    /\ attempt' = 0
    /\ backoffMs' = 0
    /\ body' = NoBody
    /\ sent' = << >>
    /\ code' = 0
    /\ delays' = << >>
    /\ postRet' = "none"
    /\ pmRead25' = Float10(0)
    /\ pmRead10' = Float10(0)
    /\ pulses' = 0
    /\ now' = 0
    /\ sdsOk' = FALSE
    /\ sdsLog' = "none"
    /\ bmeOk' = "not_called"
    /\ lastAtTop' = LastNow
    /\ UNCHANGED <<lastVars, sdsGateVars>>
    /\ sdsIn' = NoStream
    /\ UNCHANGED <<sdsRx, sdsPc, sdsElapsed, pmWritten, sdsCand>>
    /\ UNCHANGED <<geigerPulses, geigerWindowStart, geigerMux, isrTotal, consumedTotal, misfiled>>
    /\ UNCHANGED <<bmeReady, bmeRetryAt, bmeWarmupUntil, bmeAddrInUse, bmeProbes>>
    /\ UNCHANGED <<envVars, webVars, timeVars, connVars>>

----------------------------------------------------------------------------
(* Dashboard page, base.js: the overall-status badge.  The page is taken to *)
(* have the elements the script looks up (#overallStatusBadge,              *)
(* #statusTestSelect), and localStorage to work.                            *)

notBase == <<nodeVars, dashVars>>

(* String(status).toLowerCase() and .toUpperCase() on the status words *)
Lower(s) ==
    CASE s = "SAFE" -> "safe"
      [] s = "Safe" -> "safe"
      [] s = "DANGER" -> "danger"
      [] s = "WARNING" -> "warning"
      [] s = "OFFLINE" -> "offline"
      [] s = "NO_DATA_YET" -> "no_data_yet"
      [] OTHER -> s

Upper(s) ==
    CASE s = "safe" -> "SAFE"
      [] s = "Safe" -> "SAFE"
      [] s = "danger" -> "DANGER"
      [] s = "warning" -> "WARNING"
      [] s = "offline" -> "OFFLINE"
      [] s = "no_data_yet" -> "NO_DATA_YET"
      [] OTHER -> s

(* displayStatus, lines 7-13; "" stands for the falsy values *)
displayStatus(status) ==
    IF status = "" THEN [text |-> "SAFE", className |-> "safe"]
    ELSE LET normalized == Lower(status)
         IN IF normalized = "danger" THEN [text |-> "CRITICAL", className |-> "danger"]
            ELSE IF normalized = "no_data_yet"
                 THEN [text |-> "OFFLINE", className |-> "offline"]
                 ELSE [text |-> Upper(status), className |-> normalized]

NoBadge == [text |-> "", className |-> ""]

(* setOverallStatus, lines 15-25 *)
setOverallStatus(status) ==
    /\ badge' = displayStatus(status)
    /\ storedStatus' = displayStatus(status).className

(* a || b of JavaScript on strings *)
OrElse(a, b) == IF a # "" THEN a ELSE b

(* what await fetchStatus() can come to: a rejected fetch, a response that  *)
(* is not ok, a body that is not JSON, or the parsed body                   *)
StatusReplies ==
    {[kind |-> k, overall_status |-> "", status |-> ""] :
        k \in {"network_error", "http_error", "bad_json"}}
    \cup {[kind |-> "ok", overall_status |-> o, status |-> s] :
            o \in {"", "SAFE", "WARNING", "DANGER"}, s \in {"", "Safe", "NO_DATA_YET"}}

(* the values of the options of #statusTestSelect *)
TesterValues == {"", "safe", "warning", "danger"}

(* what localStorage holds from an earlier visit *)
StoredStatuses == {"", "safe", "warning", "danger", "offline"}

(* the part of pollOverall that runs before it returns to the event loop,   *)
(* lines 27-33 and 37-39, in a run that found `timers` timers still pending *)
PollOverallRun(timers) ==
    /\ ovTick' = 1 - ovTick
    /\ IF statusOverride # ""
       THEN /\ setOverallStatus(statusOverride)
            /\ ovTimers' = timers + 1
            /\ ovLast' = "override"
            /\ UNCHANGED ovAwait
       ELSE /\ ovAwait' = ovAwait + 1
            /\ ovTimers' = timers
            /\ UNCHANGED <<badge, storedStatus, ovLast>>

(* the DOMContentLoaded handler of base.js, lines 42-73; the badge is set   *)
(* from localStorage and pollOverall is called, which has no override to    *)
(* find yet                                                                 *)
BaseDomContentLoaded ==
    /\ ~baseLoaded
    /\ baseLoaded' = TRUE
    /\ statusOverride = ""
    /\ ovTick' = 1 - ovTick
    /\ badge' = displayStatus(OrElse(storedStatus, "OFFLINE"))
    /\ storedStatus' = displayStatus(OrElse(storedStatus, "OFFLINE")).className
    /\ ovAwait' = ovAwait + 1
    /\ UNCHANGED <<statusOverride, ovTimers, ovLast>>
    /\ UNCHANGED notBase

(* a faulty variant of OverallTimerFires: with an override the run returns  *)
(* without the setTimeout of the finally block                              *)
OverallTimerFiresNoFinally ==
    /\ ovTimers > 0
    /\ ovTick' = 1 - ovTick
    /\ IF statusOverride # ""
       THEN /\ setOverallStatus(statusOverride)
            /\ ovTimers' = ovTimers - 1
            /\ ovLast' = "override"
            /\ UNCHANGED ovAwait
       ELSE /\ ovAwait' = ovAwait + 1
            /\ ovTimers' = ovTimers - 1
            /\ UNCHANGED <<badge, storedStatus, ovLast>>
    /\ UNCHANGED <<baseLoaded, statusOverride>>
    /\ UNCHANGED notBase

(* a timer set at line 38 fires and pollOverall runs up to its return or    *)
(* its await                                                                *)
OverallTimerFires ==
    /\ ovTimers > 0
    /\ PollOverallRun(ovTimers - 1)
    /\ UNCHANGED <<baseLoaded, statusOverride>>
    /\ UNCHANGED notBase

(* lines 33-39: the await of a run is over; the status of the body, or      *)
(* OFFLINE from the catch block, then the finally block                     *)
OverallFetchDone ==
    /\ ovAwait > 0
    /\ \E data \in StatusReplies :
          IF data.kind = "ok"
          THEN /\ setOverallStatus(OrElse(data.overall_status, OrElse(data.status, "SAFE")))
               /\ ovLast' = "ok"
          ELSE /\ setOverallStatus("OFFLINE")
               /\ ovLast' = "failed"
    /\ ovAwait' = ovAwait - 1
    /\ ovTimers' = ovTimers + 1
    /\ UNCHANGED <<baseLoaded, statusOverride, ovTick>>
    /\ UNCHANGED notBase

(* the change handler of #statusTestSelect, lines 45-51 *)
StatusTestChange ==
    /\ baseLoaded
    /\ \E value \in TesterValues :
          /\ statusOverride' = IF value # "" THEN Upper(value) ELSE ""
          /\ IF value # ""
             THEN setOverallStatus(Upper(value))
             ELSE UNCHANGED <<badge, storedStatus>>
    /\ UNCHANGED <<baseLoaded, ovTimers, ovAwait, ovTick, ovLast>>
    /\ UNCHANGED notBase

BaseIdle ==
    /\ baseLoaded = FALSE
    /\ statusOverride = ""
    /\ badge = NoBadge
    /\ storedStatus = ""
    /\ ovTimers = 0
    /\ ovAwait = 0
    /\ ovTick = 0
    /\ ovLast = "none"

----------------------------------------------------------------------------
(* Dashboard page, dashboard.js: the ground chart.  refreshGroundChart is   *)
(* called by poll and by the change events of the two selects; each call    *)
(* reads the selects, waits for fetchRecent, and writes its rows into       *)
(* groundChart.                                                             *)

notDash == <<nodeVars, baseVars>>

(* Bound of the run: calls of refreshGroundChart waiting at the same time *)
MaxFlight == 3

GroundSels ==
    {[node |-> n, metric |-> m] : n \in {"ground_1", "ground_2"},
                                  m \in {"radiation_cpm", "pm25"}}

NoChart == [node |-> "", metric |-> ""]

(* lines 127-130: the selects are read and the fetch is started *)
RefreshGroundChartCall(sel, by) ==
    /\ Len(groundFlight) < MaxFlight
    /\ groundFlight' = Append(groundFlight, [sel |-> sel, by |-> by])
    /\ groundLastSel' = sel
    /\ groundLatest' = "pending"
    /\ UNCHANGED <<groundChart, groundShownPos, groundStale>>

(* the sequence without its i-th element *)
Without(seq, i) == SubSeq(seq, 1, i - 1) \o SubSeq(seq, i + 1, Len(seq))

(* the DOMContentLoaded handler of dashboard.js, lines 185-206: the options *)
(* and charts are made, the change handlers attached, poll is called        *)
DashDomContentLoaded ==
    /\ dashPollPc = "unloaded"
    /\ RefreshGroundChartCall(groundSelect, "poll")
    /\ dashPollPc' = "running"
    /\ UNCHANGED groundSelect
    /\ UNCHANGED notDash

(* the timer of line 182 fires: poll, lines 180-181 *)
DashPollTimer ==
    /\ dashPollPc = "timer"
    /\ RefreshGroundChartCall(groundSelect, "poll")
    /\ dashPollPc' = "running"
    /\ UNCHANGED groundSelect
    /\ UNCHANGED notDash

(* line 182: the finally of Promise.all, when the four refreshes of this    *)
(* poll are fulfilled, or as soon as one of them is rejected while the      *)
(* others still wait                                                        *)
DashPollFinally ==
    /\ dashPollPc = "running"
    /\ \E otherRejected \in BOOLEAN :
          \/ otherRejected
          \/ \A i \in 1..Len(groundFlight) : groundFlight[i].by # "poll"
    /\ dashPollPc' = "timer"
    /\ UNCHANGED <<groundSelect, groundFlight, groundChart, groundShownPos, groundStale,
                   groundLastSel, groundLatest>>
    /\ UNCHANGED notDash

(* the user picks another node or metric: the change event of lines 202-203 *)
(* calls refreshGroundChart                                                 *)
GroundSelectChange ==
    /\ dashPollPc # "unloaded"
    /\ \E sel \in GroundSels \ {groundSelect} :
          /\ groundSelect' = sel
          /\ RefreshGroundChartCall(sel, "change")
    /\ UNCHANGED dashPollPc
    /\ UNCHANGED notDash

(* lines 130-141: the fetch of one of the waiting calls is answered, in any *)
(* order, and the call writes its rows and labels into the chart            *)
GroundRowsArrive ==
    /\ \E i \in 1..Len(groundFlight) :
          /\ groundChart' = groundFlight[i].sel
          /\ groundStale' = (i <= groundShownPos)
          /\ groundShownPos' = i - 1
          /\ groundLatest' = IF i = Len(groundFlight) THEN "applied" ELSE groundLatest
          /\ groundFlight' = Without(groundFlight, i)
    /\ UNCHANGED <<dashPollPc, groundSelect, groundLastSel>>
    /\ UNCHANGED notDash

(* lines 87-88, 130: the fetch of one of the waiting calls fails or is not  *)
(* ok; fetchRecent throws and the call ends without touching the chart      *)
GroundFetchFails ==
    /\ \E i \in 1..Len(groundFlight) :
          /\ groundShownPos' = IF i <= groundShownPos THEN groundShownPos - 1
                               ELSE groundShownPos
          /\ groundLatest' = IF i = Len(groundFlight) THEN "failed" ELSE groundLatest
          /\ groundFlight' = Without(groundFlight, i)
    /\ UNCHANGED <<dashPollPc, groundSelect, groundChart, groundStale, groundLastSel>>
    /\ UNCHANGED notDash

DashIdle ==
    /\ dashPollPc = "unloaded"
    /\ groundSelect = [node |-> "ground_1", metric |-> "radiation_cpm"]
    /\ groundFlight = << >>
    /\ groundChart = NoChart
    /\ groundShownPos = 0
    /\ groundStale = FALSE
    /\ groundLastSel = NoChart
    /\ groundLatest = "none"

(* the page before it is loaded *)
WebIdle == BaseIdle /\ DashIdle
----------------------------------------------------------------------------
(* The state at line 379 of setup, and the idle values of the parts a       *)
(* specification does not run.                                              *)

SdsIdle ==
    /\ sdsIn = NoStream
    /\ sdsRx = << >>
    /\ sdsPc = "idle"
    /\ sdsElapsed = 0
    /\ pmRead25 = Float10(0)
    /\ pmRead10 = Float10(0)
    /\ pmWritten = FALSE
    /\ sdsCand = << >>

(* at power-up the clock is unset; the build stamp is fixed for the run *)
TimeBoot ==
    /\ compileTime \in BuildStamps
    /\ clock = 0
    /\ clockSrc = "none"

GeigerBoot ==
    /\ geigerPulses = 0
    /\ geigerWindowStart = 0
    /\ geigerMux = "free"
    /\ pulses = 0
    /\ now = 0
    /\ isrTotal = 0
    /\ consumedTotal = 0
    /\ misfiled = 0

BmeBoot ==
    /\ bmeReady = FALSE
    /\ bmeRetryAt = 0
    /\ bmeWarmupUntil = 0
    /\ bmeAddrInUse = BME680_I2C_ADDR
    /\ bmeOk = "not_called"
    /\ bmeProbes = << >>

(* the initializers of lines 21-37 and the assignments of lines 361-365 *)
LoopBoot(pc) ==
    /\ ms = 0
    /\ loopPc = pc
    /\ lastPm25 = Float10(120)
    /\ lastPm10 = Float10(0)
    /\ lastTempC = 24
    /\ lastHum = 55
    /\ lastPress = 1010
    /\ lastGas = GasPow10(5)
    /\ lastRadiationUsvh = [n |-> 0, d |-> 1]
    /\ sdsWarmupUntil = ULAdd(0, SDS_WARMUP_MS)
    /\ sdsNoFrameHintAt = ULAdd(ULAdd(0, SDS_WARMUP_MS), SDS_NO_FRAME_HINT_GRACE_MS)
    /\ sdsHintShown = FALSE
    /\ sdsLines = 0
    /\ LocalsGone
    /\ sdsOk = FALSE
    /\ sdsLog = "none"
    /\ lastAtTop = [pm25 |-> Float10(120), pm10 |-> Float10(0), tempC |-> 24, hum |-> 55,
                    press |-> 1010, gas |-> GasPow10(5)]

EnvFull ==
    /\ envWifi = WifiStatuses
    /\ envCodes = HttpCodes
    /\ envSds = SdsInputs
    /\ envPulses = MaxPulses
    /\ envTook = 0..MaxJitter

----------------------------------------------------------------------------
(* The decoder alone: one call of readSDS, as loop makes it (float          *)
(* pmRead25 = 0, pmRead10 = 0), on each stream of SdsInputs.                *)

InitSDS ==
    /\ EnvFull
    /\ sdsIn \in SdsInputs
    /\ sdsRx = StreamOf(sdsIn)
    /\ sdsPc = "scan"
    /\ sdsElapsed = 0
    /\ pmRead25 = Float10(0)
    /\ pmRead10 = Float10(0)
    /\ pmWritten = FALSE
    /\ sdsCand = << >>
    /\ TimeBoot
    /\ WebIdle
    /\ compileTime.parses /\ compileTime.epoch >= TIME_PLAUSIBLE_EPOCH
    /\ connPc = "idle" /\ connRet = "setup" /\ retries = 0
    /\ linkSeen = "none" /\ rounds = 0
    /\ PostIdle
    /\ GeigerBoot
    /\ BmeBoot
    /\ LoopBoot("sds_run")

NextSDS ==
    \/ SdsWindowExpired
    \/ SdsPoll
    \/ SdsSkipByte
    \/ SdsShortFrame
    \/ SdsReject
    \/ SdsAccept

SpecSDS == InitSDS /\ [][NextSDS]_vars

(* One call of readSDS with a sensor that may keep sending while the call   *)
(* runs; loop is the only task that runs readSDS, so its steps are taken.   *)
SdsLiveInputs ==
    {NoStream,
     [garbage |-> <<0, SDS_HEADER2>>, frame |-> << >>, trailer |-> << >>],
     [garbage |-> <<SDS_HEADER1, SDS_HEADER1>>,
      frame |-> MakeFrame(SDS_HEADER2, 123, 200, 1, SDS_TAIL), trailer |-> << >>],
     [garbage |-> <<0>>, frame |-> MakeFrame(0, 300, 200, 0, SDS_TAIL),
      trailer |-> TrailerFrame],
     [garbage |-> << >>, frame |-> MakeFrame(SDS_HEADER2, 123, 200, 0, 0),
      trailer |-> << >>]}

InitSDSLive ==
    /\ EnvFull
    /\ sdsIn \in SdsLiveInputs
    /\ sdsRx = StreamOf(sdsIn)
    /\ sdsPc = "scan"
    /\ sdsElapsed = 0
    /\ pmRead25 = Float10(0)
    /\ pmRead10 = Float10(0)
    /\ pmWritten = FALSE
    /\ sdsCand = << >>
    /\ TimeBoot
    /\ WebIdle
    /\ compileTime.parses /\ compileTime.epoch >= TIME_PLAUSIBLE_EPOCH
    /\ connPc = "idle" /\ connRet = "setup" /\ retries = 0
    /\ linkSeen = "none" /\ rounds = 0
    /\ PostIdle
    /\ GeigerBoot
    /\ BmeBoot
    /\ LoopBoot("sds_run")

NextSDSLive ==
    \/ SdsWindowExpired
    \/ SdsPoll
    \/ SdsPollBytesArrive
    \/ SdsSkipByte
    \/ SdsShortFrame
    \/ SdsReject
    \/ SdsAccept

SpecSDSLive == InitSDSLive /\ [][NextSDSLive]_vars /\ WF_vars(NextSDSLive)

----------------------------------------------------------------------------
(* Delivery alone: the connectWiFi of setup, then one postReading after     *)
(* the other, each with one of two sample readings.                         *)

SampleReadings ==
    {[radiation |-> RadiationOf(0), pm25 |-> Float10(120), tempC |-> 24, hum |-> 55,
      press |-> 1010, voc |-> 450],
     [radiation |-> RadiationOf(1), pm25 |-> Float10(123), tempC |-> 25, hum |-> 50,
      press |-> 1000, voc |-> 610]}

InitPost ==
    /\ EnvFull
    /\ SdsIdle
    /\ TimeBoot
    /\ WebIdle
    /\ connPc = "begin" /\ connRet = "setup" /\ retries = 0
    /\ linkSeen = "none" /\ rounds = 0
    /\ PostIdle
    /\ GeigerBoot
    /\ BmeBoot
    /\ LoopBoot("post_call")

PostCycle ==
    /\ loopPc = "post_call"
    /\ \E a \in SampleReadings : PostCall(a)
    /\ UNCHANGED notPost

NextPost ==
    \/ ConnectBegin
    \/ ConnectPoll
    \/ ConnectOk
    \/ ConnectFailed
    \/ PostCycle
    \/ PostWifiCheck
    \/ PostEnsureTime
    \/ PostUnreachable
    \/ PostReachable
    \/ PostTimeNotSynced
    \/ PostBuild
    \/ PostExhausted
    \/ PostAttemptWifi
    \/ PostBeginFailed
    \/ PostSucceeded
    \/ PostFailed

SpecPost == InitPost /\ [][NextPost]_vars

----------------------------------------------------------------------------
(* The pulse counter alone: the handler against the window close of loop;   *)
(* the rest of an iteration only lets time pass.                            *)

InitGeiger ==
    /\ EnvFull
    /\ SdsIdle
    /\ TimeBoot
    /\ WebIdle
    /\ compileTime.parses /\ compileTime.epoch >= TIME_PLAUSIBLE_EPOCH
    /\ connPc = "idle" /\ connRet = "setup" /\ retries = 0
    /\ linkSeen = "none" /\ rounds = 0
    /\ PostIdle
    /\ GeigerBoot
    /\ BmeBoot
    /\ LoopBoot("geiger")

RestOfIteration ==
    /\ loopPc = "post_call"
    /\ \E took \in envTook :
          /\ ms + SEND_INTERVAL_MS + took <= MaxUptime
          /\ ms' = ULAdd(ms, SEND_INTERVAL_MS + took)
    /\ loopPc' = "geiger"
    /\ UNCHANGED <<lastVars, sdsGateVars, localVars, sdsOk, sdsLog, lastAtTop>>
    /\ UNCHANGED <<sdsVars, bmeVars, notLoop>>

NextGeiger ==
    \/ onGeigerPulse
    \/ LoopWindowOpen
    \/ LoopWindowElapsed
    \/ GeigerEnter
    \/ GeigerRead
    \/ GeigerClear
    \/ GeigerExit
    \/ RestOfIteration

SpecGeiger == InitGeiger /\ [][NextGeiger]_vars

----------------------------------------------------------------------------
(* The firmware: setup from line 379 on, then loop, in an environment that  *)
(* keeps the link up once setup has connected.                              *)

LoopSdsInputs ==
    {NoStream,
     [garbage |-> << >>, frame |-> MakeFrame(SDS_HEADER2, 123, 200, 0, SDS_TAIL),
      trailer |-> << >>],
     [garbage |-> << >>, frame |-> MakeFrame(SDS_HEADER2, 123, 200, 1, SDS_TAIL),
      trailer |-> << >>],
     [garbage |-> << >>, frame |-> MakeFrame(SDS_HEADER2, 300, 200, 1, SDS_TAIL),
      trailer |-> MakeFrame(SDS_HEADER2, 123, 200, 0, SDS_TAIL)],
     [garbage |-> <<SDS_HEADER1>>, frame |-> MakeFrame(SDS_HEADER2, 123, 200, 0, SDS_TAIL),
      trailer |-> << >>],
     [garbage |-> <<0, SDS_HEADER1>>, frame |-> << >>, trailer |-> << >>]}

Init ==
    /\ envWifi = {"WL_CONNECTED"}
    /\ envCodes = {200, 300}
    /\ envSds = LoopSdsInputs
    /\ envPulses = 1
    /\ envTook = {0}
    /\ SdsIdle
    /\ TimeBoot
    /\ WebIdle
    /\ connPc = "begin" /\ connRet = "setup" /\ retries = 0
    /\ linkSeen = "none" /\ rounds = 0
    /\ PostIdle
    /\ GeigerBoot
    /\ BmeBoot
    /\ LoopBoot("setup_wifi")

Next ==
    \/ onGeigerPulse
    \/ ConnectBegin
    \/ ConnectPoll
    \/ ConnectOk
    \/ ConnectFailed
    \/ SetupAfterWiFi
    \/ LoopBmeRetry
    \/ LoopBmeNoRetry
    \/ LoopBmeReadOk
    \/ LoopBmeReadFailed
    \/ LoopBmeNotRead
    \/ LoopSdsCall
    \/ SdsWindowExpired
    \/ SdsPoll
    \/ SdsSkipByte
    \/ SdsShortFrame
    \/ SdsReject
    \/ SdsAccept
    \/ LoopSdsGood
    \/ LoopSdsBad
    \/ LoopWindowOpen
    \/ LoopWindowElapsed
    \/ GeigerEnter
    \/ GeigerRead
    \/ GeigerClear
    \/ GeigerExit
    \/ LoopPost
    \/ PostWifiCheck
    \/ PostEnsureTime
    \/ PostUnreachable
    \/ PostReachable
    \/ PostTimeNotSynced
    \/ PostBuild
    \/ PostExhausted
    \/ PostAttemptWifi
    \/ PostBeginFailed
    \/ PostSucceeded
    \/ PostFailed
    \/ LoopSleep

Spec == Init /\ [][Next]_vars


(* The firmware with its processor running: a step that loop, or a function *)
(* it has called, can take is eventually taken.  The build stamp does not   *)
(* parse, so that the time is trusted only once NTP has answered; the       *)
(* sensor sends nothing, bytes that are no frame, or a corrupted frame and  *)
(* a valid one.                                                             *)
LiveSdsInputs ==
    {NoStream,
     [garbage |-> <<0, SDS_HEADER1>>, frame |-> << >>, trailer |-> << >>],
     [garbage |-> << >>, frame |-> MakeFrame(SDS_HEADER2, 300, 200, 1, SDS_TAIL),
      trailer |-> MakeFrame(SDS_HEADER2, 123, 200, 0, SDS_TAIL)]}

InitLive ==
    /\ envWifi = {"WL_CONNECTED"}
    /\ envCodes = {200, 300}
    /\ envSds = LiveSdsInputs
    /\ envPulses = 1
    /\ envTook = {0}
    /\ SdsIdle
    /\ TimeBoot
    /\ WebIdle
    /\ ~compileTime.parses
    /\ connPc = "begin" /\ connRet = "setup" /\ retries = 0
    /\ linkSeen = "none" /\ rounds = 0
    /\ PostIdle
    /\ GeigerBoot
    /\ BmeBoot
    /\ LoopBoot("setup_wifi")

SpecLive == InitLive /\ [][Next]_vars /\ WF_vars(Next)

----------------------------------------------------------------------------
(* gasToVoc alone: line 464 of loop, float voc = gasToVoc(gas), on each gas *)
(* resistance readBME can have stored: zero, negative values, and the       *)
(* positive values from 0.01 Ohm up to 10^(MaxLog8/8) Ohm.                  *)

MaxLog8 == 100

GasInputs ==
    {GasZero}
    \cup {[sign |-> 0 - 1, log8 |-> q] : q \in {0, 8}}
    \cup {[sign |-> 1, log8 |-> q] : q \in (0 - 16)..MaxLog8}

InitVoc ==
    /\ envWifi = {"WL_CONNECTED"}
    /\ envCodes = {200}
    /\ envSds = {NoStream}
    /\ envPulses = 0
    /\ envTook = {0}
    /\ SdsIdle
    /\ TimeBoot
    /\ WebIdle
    /\ compileTime.parses /\ compileTime.epoch >= TIME_PLAUSIBLE_EPOCH
    /\ connPc = "idle" /\ connRet = "setup" /\ retries = 0
    /\ linkSeen = "none" /\ rounds = 0
    /\ PostIdle
    /\ GeigerBoot
    /\ bmeReady = TRUE
    /\ bmeRetryAt = 0
    /\ bmeWarmupUntil = BME_POST_CONFIG_DELAY_MS
    /\ bmeAddrInUse = BME680_I2C_ADDR
    /\ bmeOk = "ok"
    /\ bmeProbes = <<BME680_I2C_ADDR>>
    /\ ms = BME_POST_CONFIG_DELAY_MS
    /\ loopPc = "post_call"
    /\ \E s \in BmeSamples, g \in GasInputs :
          /\ tempC = s.temperature /\ lastTempC = s.temperature
          /\ hum = s.humidity /\ lastHum = s.humidity
          /\ press = BmePress(s) /\ lastPress = BmePress(s)
          /\ gas = g /\ lastGas = g
    /\ lastPm25 = Float10(120) /\ pm25 = Float10(120)
    /\ lastPm10 = Float10(0) /\ pm10 = Float10(0)
    /\ lastRadiationUsvh = [n |-> 0, d |-> 1]
    /\ radiationUsvh = [n |-> 0, d |-> 1]
    /\ sdsWarming = TRUE
    /\ sdsWarmupUntil = ULAdd(0, SDS_WARMUP_MS)
    /\ sdsNoFrameHintAt = ULAdd(ULAdd(0, SDS_WARMUP_MS), SDS_NO_FRAME_HINT_GRACE_MS)
    /\ sdsHintShown = FALSE
    /\ sdsLines = 0
    /\ sdsOk = FALSE
    /\ sdsLog = "warming"
    /\ lastAtTop = [pm25 |-> Float10(120), pm10 |-> Float10(0), tempC |-> 24, hum |-> 55,
                    press |-> 1010, gas |-> GasPow10(5)]

NextVoc ==
    \/ LoopPost

SpecVoc == InitVoc /\ [][NextVoc]_vars

----------------------------------------------------------------------------
(* The firmware left running: the build stamp is usable, the link stays up, *)
(* the server answers, the dust sensor sends a frame after a stray byte,    *)
(* no pulse arrives, and millis() runs through its wrap.           *)

LongSdsInputs ==
    {[garbage |-> <<0>>, frame |-> MakeFrame(SDS_HEADER2, 123, 200, 0, SDS_TAIL),
      trailer |-> << >>]}

InitLong ==
    /\ envWifi = {"WL_CONNECTED"}
    /\ envCodes = {200}
    /\ envSds = LongSdsInputs
    /\ envPulses = 0
    /\ envTook = {0}
    /\ SdsIdle
    /\ TimeBoot
    /\ WebIdle
    /\ compileTime.parses /\ compileTime.epoch >= TIME_PLAUSIBLE_EPOCH
    /\ connPc = "begin" /\ connRet = "setup" /\ retries = 0
    /\ linkSeen = "none" /\ rounds = 0
    /\ PostIdle
    /\ GeigerBoot
    /\ BmeBoot
    /\ LoopBoot("setup_wifi")

NextLong ==
    \/ ConnectBegin
    \/ ConnectPoll
    \/ ConnectOk
    \/ SetupAfterWiFi
    \/ LoopBmeRetry
    \/ LoopBmeNoRetry
    \/ LoopBmeReadOk
    \/ LoopBmeReadFailed
    \/ LoopBmeNotRead
    \/ LoopSdsCall
    \/ SdsSkipByte
    \/ SdsAccept
    \/ LoopSdsGood
    \/ LoopWindowOpen
    \/ LoopWindowElapsed
    \/ GeigerEnter
    \/ GeigerRead
    \/ GeigerClear
    \/ GeigerExit
    \/ LoopPost
    \/ PostWifiCheck
    \/ PostEnsureTime
    \/ PostUnreachable
    \/ PostReachable
    \/ PostBuild
    \/ PostAttemptWifi
    \/ PostBeginFailed
    \/ PostSucceeded
    \/ LoopSleepOn

SpecLong == InitLong /\ [][NextLong]_vars /\ WF_vars(NextLong)

----------------------------------------------------------------------------
(* The dashboard page next to a node that is not looked at.  The two        *)
(* scripts share no state: each is run on its own.                          *)

NodeAside ==
    /\ envWifi = {"WL_CONNECTED"}
    /\ envCodes = {200}
    /\ envSds = {NoStream}
    /\ envPulses = 0
    /\ envTook = {0}
    /\ SdsIdle
    /\ TimeBoot
    /\ compileTime.parses /\ compileTime.epoch >= TIME_PLAUSIBLE_EPOCH
    /\ connPc = "idle" /\ connRet = "setup" /\ retries = 0
    /\ linkSeen = "none" /\ rounds = 0
    /\ PostIdle
    /\ GeigerBoot
    /\ BmeBoot
    /\ LoopBoot("setup_wifi")

(* base.js: the page is opened with any earlier status in localStorage; the *)
(* browser runs the handler of a fired event, a due timer and the           *)
(* continuation of a settled fetch; the user need not touch the tester      *)
InitBase ==
    /\ NodeAside
    /\ baseLoaded = FALSE
    /\ statusOverride = ""
    /\ badge = NoBadge
    /\ storedStatus \in StoredStatuses
    /\ ovTimers = 0
    /\ ovAwait = 0
    /\ ovTick = 0
    /\ ovLast = "none"
    /\ DashIdle

NextBase ==
    \/ BaseDomContentLoaded
    \/ OverallTimerFires
    \/ OverallFetchDone
    \/ StatusTestChange

BaseFairness ==
    WF_vars(BaseDomContentLoaded) /\ WF_vars(OverallTimerFires) /\ WF_vars(OverallFetchDone)

SpecBase == InitBase /\ [][NextBase]_vars /\ BaseFairness

(* dashboard.js *)
InitDash ==
    /\ NodeAside
    /\ BaseIdle
    /\ DashIdle

NextDash ==
    \/ DashDomContentLoaded
    \/ DashPollTimer
    \/ DashPollFinally
    \/ GroundSelectChange
    \/ GroundRowsArrive
    \/ GroundFetchFails

SpecDash == InitDash /\ [][NextDash]_vars

----------------------------------------------------------------------------
(* Properties.  What a property says about a frame or a status code is      *)
(* written here from the protocol, apart from the operators of the model.   *)

(* a 10-byte frame of the SDS011 protocol: AA C0 d1..d6 ck AB with ck the   *)
(* low byte of d1 + .. + d6                                                 *)
WellFormedFrame(f) ==
    /\ Len(f) = 10
    /\ f[1] = 170
    /\ f[2] = 192
    /\ f[10] = 171
    /\ f[9] = (f[3] + f[4] + f[5] + f[6] + f[7] + f[8]) % 256

FramePm25(f) == [n |-> f[3] + 256 * f[4], d |-> 10]
FramePm10(f) == [n |-> f[5] + 256 * f[6], d |-> 10]

SdsReturned == sdsPc \in {"ret_true", "ret_false"}

(* the stream readSDS has still to scan is what follows the bytes consumed *)
RestOfStream ==
    LET s == StreamOf(sdsIn)
    IN Len(sdsRx) <= Len(s) /\ sdsRx = SubSeq(s, Len(s) - Len(sdsRx) + 1, Len(s))

(* C1: on a stream that is a garbage prefix (0xAA allowed in it) followed   *)
(* by exactly one well-formed frame, readSDS returns true with pm25 and     *)
(* pm10 decoded from that frame.                                            *)
C1_GarbageThenFrameAccepted ==
    (SdsReturned /\ WellFormedFrame(sdsIn.frame) /\ sdsIn.trailer = << >>)
        => /\ sdsPc = "ret_true"
           /\ pmRead25 = FramePm25(sdsIn.frame)
           /\ pmRead10 = FramePm10(sdsIn.frame)

----------------------------------------------------------------------------
(* C2: the window close reads exactly the pulses of the handler's           *)
(* invocations that completed since the previous close (all N of them, none *)
(* lost or counted twice), the counter is zero when the critical section is *)
(* left, and outside the critical section it holds exactly the invocations  *)
(* since the last close, so that a second close before any further edge     *)
(* reads 0.                                                                 *)
C2_PulseCountLinearizable ==
    /\ loopPc \in {"g_clear", "g_exit"} => pulses = isrTotal - consumedTotal
    /\ loopPc = "g_exit" => geigerPulses = 0
    /\ geigerMux = "free" => geigerPulses = isrTotal - consumedTotal

(* a close that read two pulses has been followed, with no edge between,    *)
(* by a close that read none                                                *)
C2_SecondCloseReadsZero ==
    /\ loopPc = "g_exit"
    /\ pulses = 0
    /\ consumedTotal >= 2
    /\ isrTotal = consumedTotal

----------------------------------------------------------------------------
(* the POSTs of the current call that did not get a 2xx *)
FailedPosts == IF postRet = "true" THEN Len(sent) - 1 ELSE Len(sent)

In2xx(c) == c \in 200..299

(* C3: one call of postReading makes at most 4 HTTP POSTs. *)
C3_AtMostFourPosts == Len(sent) <= 4

C3_FourPostsMade ==
    /\ postPc = "done"
    /\ postRet = "false"
    /\ Len(sent) = 4
    /\ code = -1

(* C4 as stated: a call whose four attempts all fail inserts the backoff    *)
(* delays 1000, 2000, 4000, 8000 ms.                                        *)
C4_FourDelays ==
    (postPc = "done" /\ postRet = "false" /\ Len(sent) = 4)
        => delays = <<1000, 2000, 4000, 8000>>

(* C4 amended: a delay follows each of the first three failed POSTs of a    *)
(* call and none follows the fourth; the delays are 1000, 2000, 4000 ms in  *)
(* this order, so a call whose four POSTs all fail inserts exactly 1000,    *)
(* 2000, 4000 and the cap of 8000 ms is never slept.                        *)
C4_ThreeDelays ==
    /\ Len(delays) = Min(FailedPosts, 3)
    /\ delays = SubSeq(<<1000, 2000, 4000>>, 1, Len(delays))

C4_AllFourFailed ==
    /\ postPc = "done"
    /\ postRet = "false"
    /\ Len(sent) = 4
    /\ delays = <<1000, 2000, 4000>>

(* C5: once a POST of the call has got a status in [200, 300), postReading  *)
(* has returned true: nothing was sent and no delay inserted after it (the  *)
(* delays are those of the failed POSTs before it).                         *)
C5_SuccessReturnsAtOnce ==
    (Len(sent) >= 1 /\ In2xx(code))
        => /\ postPc = "done"
           /\ postRet = "true"
           /\ Len(delays) = Len(sent) - 1

C5_SuccessOnThirdPost ==
    /\ postPc = "done"
    /\ postRet = "true"
    /\ Len(sent) = 3
    /\ code = 200

(* C6: past the pre-flight, postReading returns false only after all four   *)
(* attempts have been made, a failure to open the HTTPS connection being a  *)
(* failed attempt like another.                                             *)
C6_FalseOnlyAfterFourAttempts ==
    (postPc = "done" /\ postRet = "false" /\ attempt >= 1) => attempt >= 4

(* C7: a call in which the clock stays below 1700000000 (no bootstrap, no   *)
(* NTP sync) returns false without an attempt, and every payload sent       *)
(* carries a timestamp of at least 1700000000.                              *)
C7_NoPostWithoutTime ==
    /\ \A i \in 1..Len(sent) : sent[i].timestamp >= 1700000000
    /\ (postPc = "done" /\ clock < 1700000000)
          => (Len(sent) = 0 /\ attempt = 0 /\ postRet = "false")

(* the host is reachable and the time is not trusted: the cycle is skipped *)
C7_SkippedForTime ==
    /\ postPc = "done"
    /\ reachOk
    /\ clock < 1700000000
    /\ Len(sent) = 0
    /\ postRet = "false"

(* C8: with the clock set from the build stamp and no NTP sync,             *)
(* ensureTimeSynced returns true and, the reachability check passing, the   *)
(* call makes at least one POST.                                            *)
C8_BootstrapLeadsToPost ==
    (postPc = "done" /\ clockSrc = "build" /\ reachOk)
        => (timeOk /\ Len(sent) >= 1)

----------------------------------------------------------------------------
(* C9: when the candidate readSDS has just tested is not a well-formed      *)
(* frame, readSDS has not returned (it is scanning, no error state), its    *)
(* outputs are as the caller passed them, and what it has still to scan is  *)
(* the stream after the candidate.                                          *)
C9_InvalidCandidateSkipped ==
    (sdsCand # << >> /\ ~WellFormedFrame(sdsCand))
        => /\ sdsPc = "scan"
           /\ ~pmWritten
           /\ pmRead25 = [n |-> 0, d |-> 10]
           /\ pmRead10 = [n |-> 0, d |-> 10]
           /\ RestOfStream

(* a candidate with the right headers and tail and a wrong checksum has     *)
(* been rejected, with bytes left to scan                                   *)
C9_BadChecksumRejected ==
    /\ sdsCand # << >>
    /\ sdsCand[2] = 192
    /\ sdsCand[10] = 171
    /\ ~WellFormedFrame(sdsCand)
    /\ sdsRx # << >>

----------------------------------------------------------------------------
LastPmChanges == lastPm25' # lastPm25 \/ lastPm10' # lastPm10

LastBmeChanges ==
    \/ lastTempC' # lastTempC
    \/ lastHum' # lastHum
    \/ lastPress' # lastPress
    \/ lastGas' # lastGas

(* C10: lastPm25/lastPm10 change only in the step of loop that follows a    *)
(* readSDS that returned true, and take the values it decoded;              *)
(* lastTempC/lastHum/lastPress/lastGas change only in the step in which     *)
(* readBME returned true; an iteration without the successful read has the  *)
(* values it started with.                                                  *)
C10_LastKnownGoodKept ==
    /\ [][LastPmChanges => (sdsPc = "ret_true" /\ pmWritten /\ sdsOk'
                              /\ lastPm25' = pmRead25 /\ lastPm10' = pmRead10)]_vars
    /\ [][LastBmeChanges => (loopPc = "bme_read" /\ bmeReady /\ bmeOk' = "ok")]_vars
    /\ [](loopPc \notin {"setup_wifi", "top"} =>
            /\ ~sdsOk => (lastPm25 = lastAtTop.pm25 /\ lastPm10 = lastAtTop.pm10)
            /\ bmeOk # "ok" => /\ lastTempC = lastAtTop.tempC
                               /\ lastHum = lastAtTop.hum
                               /\ lastPress = lastAtTop.press
                               /\ lastGas = lastAtTop.gas)

(* an iteration in which both reads failed, after one that had read both *)
C10_BothReadsFailed ==
    /\ loopPc = "geiger"
    /\ ~sdsOk
    /\ bmeOk = "failed"
    /\ lastPm25 = [n |-> 123, d |-> 10]
    /\ lastTempC = 25

----------------------------------------------------------------------------
(* the well-formed frames of the stream the sensor sent in this iteration *)
ValidFramesOf(in) == {f \in {in.frame, in.trailer} : WellFormedFrame(f)}

(* C11: the pm25 passed to postReading is the value of a well-formed frame  *)
(* of this iteration's stream when readSDS returned true (a corrupted frame *)
(* before it changes nothing), and the lastPm25 the iteration started with  *)
(* when readSDS returned false.                                             *)
C11_Pm25OfPayload ==
    loopPc = "post_run" =>
        IF sdsOk
        THEN \E f \in ValidFramesOf(sdsIn) : postArgs.pm25 = FramePm25(f)
        ELSE postArgs.pm25 = lastAtTop.pm25

(* a corrupted frame and then a valid one in the window: the payload has    *)
(* the valid frame's 12.3                                                   *)
C11_ValidAfterCorrupted ==
    /\ loopPc = "post_run"
    /\ sdsOk
    /\ sdsIn.frame # << >>
    /\ ~WellFormedFrame(sdsIn.frame)
    /\ postArgs.pm25 = [n |-> 123, d |-> 10]
    /\ lastAtTop.pm25 = [n |-> 120, d |-> 10]

----------------------------------------------------------------------------
(* what a successful read can leave in the variables of loop, in the        *)
(* environment of the run: the pm25 of the well-formed frames the sensor    *)
(* sends, and the samples of the environmental sensor                       *)
ReadablePm25 == {FramePm25(f) : f \in UNION {ValidFramesOf(in) : in \in envSds}}
ReadableBme ==
    {[t |-> s.temperature, h |-> s.humidity, p |-> s.pressure \div 100] : s \in BmeSamples}

(* C12: the pm25, temperature, humidity and pressure of every payload sent  *)
(* are values that a successful read of the sensor produced.                *)
C12_PayloadFromAcceptedSamples ==
    \A i \in 1..Len(sent) :
        /\ sent[i].pm25 \in ReadablePm25
        /\ [t |-> sent[i].air_temp_c, h |-> sent[i].humidity, p |-> sent[i].pressure_hpa]
              \in ReadableBme

----------------------------------------------------------------------------
EndOfCycle == loopPc = "post_run" /\ postPc = "done"

(* the uptime the run is followed for leaves room for the sleep *)
SleepFits == \E took \in envTook : ms + SEND_INTERVAL_MS + took <= MaxUptime

(* C13: whatever the sensors, the time sync, the reachability check and the *)
(* POSTs do, an iteration that has begun reaches its end-of-cycle sleep,    *)
(* and after the sleep the next iteration begins.                           *)
C13_LoopAlive ==
    /\ (loopPc = "top") ~> EndOfCycle
    /\ (EndOfCycle /\ SleepFits) ~> (loopPc = "top")

(* the end of a cycle, not the first, in which everything failed: the       *)
(* sensor is not detected, no frame was decoded, the time is not trusted    *)
C13_CycleOfFailures ==
    /\ EndOfCycle
    /\ ms >= SEND_INTERVAL_MS
    /\ ~bmeReady
    /\ ~sdsOk
    /\ ~timeOk
    /\ postRet = "false"

----------------------------------------------------------------------------
(* C14: a round of connectWiFi waits for the link at most 40 times; after a *)
(* round that did not see WL_CONNECTED the function calls itself, whatever  *)
(* the number of rounds before; it returns only from a round whose last     *)
(* WiFi.status() was WL_CONNECTED.                                          *)
C14_ConnectNeverGivesUp ==
    /\ [](retries <= 40)
    /\ [][(connPc = "check" /\ linkSeen' # "WL_CONNECTED") => connPc' = "begin"]_vars
    /\ [][(connPc # "idle" /\ connPc' = "idle")
            => (connPc = "check" /\ linkSeen' = "WL_CONNECTED")]_vars

(* a round that has waited 40 times, after two rounds that failed *)
C14_ThirdRoundExhausted ==
    /\ connPc = "check"
    /\ retries = 40
    /\ rounds = 3
    /\ linkSeen = "WL_DISCONNECTED"

----------------------------------------------------------------------------
(* a step of loop from its top in which initBME was called: it has set      *)
(* bmeReady, or moved bmeRetryAt                                            *)
BmeReinit == loopPc = "top" /\ (bmeReady' # bmeReady \/ bmeRetryAt' # bmeRetryAt)

(* the initBME of setup *)
BmeSetupInit == loopPc = "setup_wifi" /\ loopPc' = "top"

BothAddrs == <<BME680_I2C_ADDR, BME680_I2C_ADDR_ALT>>

----------------------------------------------------------------------------
(* the step of loop in which readBME was called and returned false *)
BmeReadFails == loopPc = "bme_read" /\ bmeOk' = "failed"

(* C16: once bmeReady is true it stays true; the step in which readBME      *)
(* fails changes none of bmeReady, bmeWarmupUntil, bmeRetryAt, calls no     *)
(* initBME (no address is probed, the address in use stays), and leaves the *)
(* last-known-good values, which are the ones the iteration sends.          *)
C16_NoRegressionOnReadFailure ==
    /\ [][bmeReady => bmeReady']_vars
    /\ [][BmeReadFails => /\ bmeReady /\ bmeReady'
                           /\ UNCHANGED <<bmeWarmupUntil, bmeRetryAt, bmeAddrInUse, bmeProbes>>
                           /\ UNCHANGED <<lastTempC, lastHum, lastPress, lastGas>>]_vars
    /\ []((loopPc = "post_run" /\ bmeOk = "failed") =>
            /\ bmeReady
            /\ postArgs.tempC = lastAtTop.tempC
            /\ postArgs.hum = lastAtTop.hum
            /\ postArgs.press = lastAtTop.press
            /\ postArgs.voc = gasToVoc(lastAtTop.gas))

(* a failed read in an iteration after one whose read had succeeded: the    *)
(* payload carries the earlier sample                                       *)
C16_FailedReadAfterGoodOne ==
    /\ loopPc = "post_run"
    /\ bmeOk = "failed"
    /\ bmeReady
    /\ lastAtTop.tempC = 26
    /\ postArgs.tempC = 26
    /\ postArgs.press = 1013

----------------------------------------------------------------------------
(* the step of loop in which readBME is called *)
BmeReadCalled == loopPc = "bme_read" /\ bmeOk' # "not_called"

(* C17: readBME is called only in a step of loop that finds bmeReady true   *)
(* and millis() >= bmeWarmupUntil; by then an initBME has found the sensor  *)
(* at the address in use and the delay that follows its configuration has   *)
(* passed.                                                                  *)
C17_ReadOnlyWhenReady ==
    /\ [][BmeReadCalled => (bmeReady /\ ms >= bmeWarmupUntil)]_vars
    /\ [](bmeOk # "not_called" =>
            /\ bmeReady
            /\ bmeProbes # << >>
            /\ bmeAddrInUse = bmeProbes[Len(bmeProbes)]
            /\ bmeWarmupUntil >= BME_POST_CONFIG_DELAY_MS
            /\ ms >= bmeWarmupUntil)

(* the first read after the sensor, absent in setup, was found by a retry   *)
(* of loop at the alternate address                                         *)
C17_ReadAfterLateInit ==
    /\ loopPc = "sds_call"
    /\ bmeOk = "ok"
    /\ bmeRetryAt > 0
    /\ bmeAddrInUse = BME680_I2C_ADDR_ALT
    /\ ms = bmeWarmupUntil

----------------------------------------------------------------------------
(* C18: of the failure diagnostics of lines 436-447 printed after the       *)
(* warmup, at most one is printed between two readSDS that returned true    *)
(* (or between the end of the warmup and the first that does).             *)
C18_AtMostOneFailureLine == sdsLines <= 1

----------------------------------------------------------------------------
(* the reference mapping: 150 for a resistance <= 0, and                    *)
(* clamp(50 + 80 * log10(gasOhms), 50, 800) otherwise                       *)
Clamp(x, lo, hi) == IF x < lo THEN lo ELSE IF x > hi THEN hi ELSE x

RefVoc(g) == IF g.sign <= 0 THEN 150 ELSE Clamp(50 + 10 * g.log8, 50, 800)

(* the voc of the payload is gasToVoc of the resistance of the iteration *)
VocApplied == loopPc = "post_run"

(* C19: gasToVoc returns 150 for a resistance <= 0 and                      *)
(* clamp(50 + 80*log10(gasOhms), 50, 800) otherwise: 150 at 0, 50 at 1,     *)
(* 450 at 100000, 610 at 10000000, and a value of [50, 800] for every       *)
(* positive resistance.                                                     *)
C19_VocIsReferenceMapping ==
    VocApplied =>
        /\ postArgs.voc = RefVoc(gas)
        /\ gas.sign <= 0 => postArgs.voc = 150
        /\ gas = GasZero => postArgs.voc = 150
        /\ gas = GasPow10(0) => postArgs.voc = 50
        /\ gas = GasPow10(5) => postArgs.voc = 450
        /\ gas = GasPow10(7) => postArgs.voc = 610
        /\ gas.sign > 0 => (50 <= postArgs.voc /\ postArgs.voc <= 800)

(* a resistance above 10^9.375 Ohm, where the cap of 800 applies *)
C19_VocCapped ==
    /\ VocApplied
    /\ gas.sign > 0
    /\ 50 + 10 * gas.log8 > 800
    /\ postArgs.voc = 800

----------------------------------------------------------------------------
(* the order of the resistances: a <= b *)
GasKey(g) == g.sign * (g.log8 + 1000)

GasLeq(a, b) == GasKey(a) <= GasKey(b)

----------------------------------------------------------------------------
(* the eight fields of the payload *)
PayloadFields ==
    {"device_id", "timestamp", "radiation_cpm", "pm25", "air_temp_c", "humidity",
     "pressure_hpa", "voc"}

(* the body b carries the arguments a of a call of postReading *)
BodyOf(b, a) ==
    /\ DOMAIN b = PayloadFields
    /\ b.device_id = NODE_ID
    /\ b.radiation_cpm = a.radiation
    /\ b.pm25 = a.pm25
    /\ b.air_temp_c = a.tempC
    /\ b.humidity = a.hum
    /\ b.pressure_hpa = a.press
    /\ b.voc = a.voc

(* C21: the body is built once in a call of postReading, before the first   *)
(* attempt, from the arguments of this call; every attempt of the call      *)
(* sends this body, with its eight fields; the call starts with no body, so *)
(* what a call sends was built in it, also after a call whose attempts all  *)
(* failed: in loop the body sent carries the values of this iteration.      *)
C21_BodyIsSnapshotOfCycle ==
    /\ [][body' # body => \/ (postPc' \in {"wifi", "idle"} /\ body' = NoBody /\ sent' = << >>)
                          \/ (postPc = "gate" /\ body = NoBody /\ sent = << >>
                                /\ BodyOf(body', postArgs))]_vars
    /\ [][sent' # sent => (sent' = << >> \/ sent' = Append(sent, body))]_vars
    /\ [](\A i \in 1..Len(sent) : sent[i] = body /\ BodyOf(sent[i], postArgs))
    /\ []((loopPc = "post_run" /\ sent # << >>) =>
            /\ body.pm25 = pm25
            /\ body.air_temp_c = tempC
            /\ body.humidity = hum
            /\ body.pressure_hpa = press
            /\ body.voc = gasToVoc(gas)
            /\ body.radiation_cpm = radiationUsvh)

(* the second attempt of an iteration whose samples differ from those the   *)
(* iteration before had                                                     *)
C21_SecondAttemptOfLaterCycle ==
    /\ loopPc = "post_run"
    /\ Len(sent) = 2
    /\ sent[1] = sent[2]
    /\ lastAtTop.tempC = 25
    /\ body.air_temp_c = 26
    /\ lastAtTop.pm25 = Float10(120)
    /\ body.pm25 = Float10(123)

----------------------------------------------------------------------------
(* C22: when the DNS resolution or the TCP connect of checkInternetReachable *)
(* fails, postReading returns false with no body built, no beginHttps and    *)
(* no POST; a POST is made in a call only after both have succeeded in it.   *)
C22_PreflightFailsFast ==
    /\ [](reachSeen \in {"dns_failed", "tcp_failed"} =>
            /\ postPc = "done"
            /\ postRet = "false"
            /\ ~reachOk
            /\ attempt = 0
            /\ ~beginFailed
            /\ body = NoBody
            /\ sent = << >>)
    /\ [][(sent' # sent /\ sent' # << >>) => (reachOk /\ reachSeen = "reachable")]_vars
    /\ []((attempt > 0 \/ sent # << >>) => (reachOk /\ reachSeen = "reachable"))

(* the TCP connect failed after the name had resolved, in a call whose time *)
(* was trusted                                                              *)
C22_TcpConnectFailed ==
    /\ postPc = "done"
    /\ reachSeen = "tcp_failed"
    /\ timeOk
    /\ postRet = "false"
    /\ sent = << >>

----------------------------------------------------------------------------
(* the step of the interrupt handler *)
IsrStep == isrTotal' = isrTotal + 1

(* loop stands between portENTER_CRITICAL and portEXIT_CRITICAL *)
InReadAndClear == loopPc \in {"g_read", "g_clear", "g_exit"}

(* C23: onGeigerPulse takes no step while loop is between its               *)
(* portENTER_CRITICAL and its portEXIT_CRITICAL: the counter loop clears is *)
(* the counter it has read.                                                 *)
C23_ReadAndClearExcludeHandler ==
    /\ [][IsrStep => (~InReadAndClear /\ geigerMux = "free")]_vars
    /\ [](InReadAndClear <=> geigerMux = "loop")
    /\ [](loopPc = "g_clear" => geigerPulses = pulses)
    /\ [](loopPc = "g_exit" => geigerPulses = 0)

(* loop has read one pulse and not yet cleared the counter, and the tube    *)
(* has more pulses to give                                                  *)
C23_PulsePendingInCriticalSection ==
    /\ loopPc = "g_clear"
    /\ geigerMux = "loop"
    /\ pulses = 1
    /\ isrTotal < envPulses

----------------------------------------------------------------------------
(* C24: every pulse is counted by the window close whose interval           *)
(* [geigerWindowStart, next geigerWindowStart) contains its arrival: no     *)
(* close reads a pulse that came after the close had taken the `now` that   *)
(* becomes the next geigerWindowStart.                                      *)
C24_PulseCountedInItsWindow == misfiled = 0

----------------------------------------------------------------------------
(* loop is closing a window: from the test of line 452 to line 462 *)
ClosingWindow == loopPc \in {"g_enter", "g_read", "g_clear", "g_exit"}

(* C25: at each window close the time elapsed since geigerWindowStart is    *)
(* GEIGER_WINDOW_MS, the divisor of the rate conversion.                    *)
C25_CloseAfterExactWindow ==
    ClosingWindow => ULSub(now, geigerWindowStart) = GEIGER_WINDOW_MS

----------------------------------------------------------------------------
(* the fractions a and b are the same number *)
SameRate(a, b) == a.n * b.d = b.n * a.d

(* (p * 60000 / GEIGER_WINDOW_MS) / GEIGER_CPM_PER_USVH *)
RateOfPulses(p) == [n |-> p * 60000, d |-> GEIGER_WINDOW_MS * GEIGER_CPM_PER_USVH]

(* the step of loop that ends a window close *)
WindowClosed == loopPc = "g_exit" /\ loopPc' = "post_call"

(* C26: a window close with p pulses gives the rate                         *)
(* (p * 60000 / GEIGER_WINDOW_MS) / GEIGER_CPM_PER_USVH, stores it as the    *)
(* last-known radiation and goes on to postReading, which sends it; with    *)
(* p = 0 the rate is 0 and is stored and sent the same way.                 *)
C26_RateOfWindow ==
    /\ [][WindowClosed => /\ SameRate(radiationUsvh', RateOfPulses(pulses))
                           /\ lastRadiationUsvh' = radiationUsvh'
                           /\ (pulses = 0 => radiationUsvh'.n = 0)]_vars
    /\ [][(loopPc = "g_exit" /\ loopPc' # loopPc) => WindowClosed]_vars
    /\ [](loopPc = "post_run" =>
            /\ postArgs.radiation = radiationUsvh
            /\ radiationUsvh = lastRadiationUsvh
            /\ \A i \in 1..Len(sent) : sent[i].radiation_cpm = radiationUsvh)

(* a window with no pulse, closed after one with a pulse: the rate 0 is in  *)
(* the body that was posted                                                 *)
C26_ZeroRateSent ==
    /\ loopPc = "post_run"
    /\ sent # << >>
    /\ consumedTotal = 1
    /\ pulses = 0
    /\ now = geigerWindowStart
    /\ lastRadiationUsvh.n = 0
    /\ body.radiation_cpm.n = 0

----------------------------------------------------------------------------
(* C27: a candidate, ten bytes from a 0xAA on, is accepted (readSDS returns *)
(* true on it) if and only if its byte 1 is 0xC0, its byte 9 is 0xAB and    *)
(* its byte 8 is the sum of its bytes 2..7 modulo 256; the outputs are then *)
(* pm25 = (byte2 + 256*byte3)/10 and pm10 = (byte4 + 256*byte5)/10.         *)
C27_AcceptsExactlyWellFormed ==
    sdsCand # << >> =>
        /\ Len(sdsCand) = 10
        /\ sdsCand[1] = 170
        /\ (sdsPc = "ret_true") <=> WellFormedFrame(sdsCand)
        /\ sdsPc = "ret_true" => /\ pmWritten
                                 /\ pmRead25 = FramePm25(sdsCand)
                                 /\ pmRead10 = FramePm10(sdsCand)

(* an accepted candidate whose PM2.5 needs its high byte: 300 = 44 + 256*1  *)
C27_HighByteDecoded ==
    /\ sdsPc = "ret_true"
    /\ sdsCand # << >>
    /\ sdsCand[3] = 44
    /\ sdsCand[4] = 1
    /\ pmRead25 = [n |-> 300, d |-> 10]
    /\ pmRead10 = [n |-> 200, d |-> 10]

----------------------------------------------------------------------------
(* C28: readSDS returns on every stream, also when nothing comes, when      *)
(* garbage keeps coming, and when header bytes are followed by invalid      *)
(* candidates; it returns false only once SDS_READ_WINDOW_MS have elapsed,  *)
(* and it never runs beyond the window plus one timeout of readBytes.       *)
C28_ReadSDSTerminates ==
    /\ <>SdsReturned
    /\ (sdsPc = "scan") ~> SdsReturned
    /\ [](sdsPc = "ret_false" => sdsElapsed >= SDS_READ_WINDOW_MS)
    /\ [](sdsElapsed <= SDS_READ_WINDOW_MS + SDS_READ_TIMEOUT_MS)

(* the window ended after garbage that kept coming, a header byte and the   *)
(* rejected candidate among it                                              *)
C28_WindowEndedOnGarbage ==
    /\ sdsPc = "ret_false"
    /\ sdsIn.frame # << >>
    /\ ~WellFormedFrame(sdsIn.frame)
    /\ sdsElapsed >= SDS_READ_WINDOW_MS
    /\ sdsRx = <<0>>

----------------------------------------------------------------------------
(* the order of the steps of setup and loop: the positions that may follow  *)
(* each position                                                            *)
StepOrder ==
    {<<"setup_wifi", "top">>,
     <<"top", "bme_read">>,
     <<"bme_read", "sds_call">>,
     <<"sds_call", "sds_run">>,
     <<"sds_run", "geiger">>,
     <<"geiger", "g_enter">>, <<"g_enter", "g_read">>, <<"g_read", "g_clear">>,
     <<"g_clear", "g_exit">>, <<"g_exit", "post_call">>,
     <<"geiger", "post_call">>,
     <<"post_call", "post_run">>,
     <<"post_run", "top">>}

(* C29: an iteration of loop goes through re-init if due, readBME, readSDS, *)
(* the window close if elapsed, gasToVoc and one postReading, then the      *)
(* sleep, in this order; initBME and readBME act only at their places;      *)
(* postReading is entered at its place only, once, and the iteration ends   *)
(* only after it has returned; while postReading runs and during the sleep  *)
(* no sensor is read and no last-known-good value changes.                  *)
C29_FixedOrderOfSteps ==
    /\ [][loopPc' # loopPc => <<loopPc, loopPc'>> \in StepOrder]_vars
    /\ [][(postPc' = "wifi" /\ postPc # "wifi") =>
            (loopPc = "post_call" /\ loopPc' = "post_run")]_vars
    /\ [][(loopPc = "post_run" /\ loopPc' = "top") => postPc = "done"]_vars
    /\ [][bmeProbes' # bmeProbes => loopPc \in {"setup_wifi", "top"}]_vars
    /\ [][sdsRx' # sdsRx => loopPc \in {"setup_wifi", "sds_call", "sds_run"}]_vars
    /\ [][loopPc = "post_run" =>
            /\ UNCHANGED <<lastPm25, lastPm10, lastTempC, lastHum, lastPress, lastGas,
                           lastRadiationUsvh>>
            /\ UNCHANGED <<sdsRx, bmeReady, bmeProbes, geigerWindowStart, consumedTotal>>
            /\ loopPc' = "post_run" => UNCHANGED <<bmeOk, sdsOk, pulses, postArgs>>]_vars

(* the end of an iteration in which the sensor was found by the retry and   *)
(* read, a frame was decoded, the window was closed and the POST succeeded  *)
C29_FullIteration ==
    /\ loopPc = "post_run"
    /\ postPc = "done"
    /\ postRet = "true"
    /\ bmeRetryAt > 0
    /\ bmeWarmupUntil = ms
    /\ bmeOk = "ok"
    /\ sdsOk
    /\ now = geigerWindowStart

----------------------------------------------------------------------------
(* C30: bootstrapTimeIfNeeded leaves a clock that is at or above 1700000000 *)
(* as it is; the clock is set from the build stamp only when it was below;  *)
(* once the clock has been set from the network, no call of connectWiFi or  *)
(* ensureTimeSynced sets it from the build stamp.                           *)
C30_NetworkTimeKept ==
    /\ [](clock >= 1700000000 =>
            /\ BootstrapTimeIfNeeded(clock, clockSrc, compileTime).clock = clock
            /\ BootstrapTimeIfNeeded(clock, clockSrc, compileTime).src = clockSrc)
    /\ [](clockSrc = "ntp" => clock >= 1700000000)
    /\ [][clockSrc = "ntp" => clockSrc' = "ntp"]_vars
    /\ [][(clockSrc' = "build" /\ clockSrc # "build") =>
            (clock < 1700000000 /\ clock' = compileTime.epoch)]_vars
    /\ [][clockSrc = "build" => clock' >= clock]_vars

(* ensureTimeSynced has run, with a build stamp that would pass, after the  *)
(* clock had been set from the network                                      *)
C30_EnsureAfterNetworkSync ==
    /\ postPc = "reach"
    /\ timeOk
    /\ clockSrc = "ntp"
    /\ clock = 1700000500
    /\ compileTime.parses
    /\ compileTime.epoch = 1700000000

----------------------------------------------------------------------------
----------------------------------------------------------------------------
(* the pulses the window closes have taken out of the counter so far: those *)
(* of the closes that are over, and those of a close that has cleared the   *)
(* counter (line 456) and still holds them in its local                     *)
ConsumedSoFar == consumedTotal + (IF loopPc = "g_exit" THEN pulses ELSE 0)

(* C32: at every point of every interleaving of the handler and loop, the   *)
(* pulses taken by the window closes so far plus the value of geigerPulses  *)
(* are the invocations of onGeigerPulse so far.                             *)
C32_PulsesConserved ==
    /\ ConsumedSoFar + geigerPulses = isrTotal
    /\ geigerPulses >= 0
    /\ consumedTotal <= isrTotal

(* a later close has cleared the counter with pulses in it, one of which    *)
(* arrived while loop was on its way into the critical section              *)
C32_CloseWithLatePulse ==
    /\ loopPc = "g_exit"
    /\ pulses >= 1
    /\ consumedTotal >= 1
    /\ misfiled >= 1

----------------------------------------------------------------------------
(* the two gates where loop tests them: line 413 and line 427 *)
BmeGateOpen == bmeReady /\ ms >= bmeWarmupUntil
SdsGateOpen == ~(ms < sdsWarmupUntil)

(* C33: once a cycle has found the BME gate open (bmeReady and millis() >=  *)
(* bmeWarmupUntil), every later cycle finds it open, and the same for the   *)
(* SDS gate (millis() >= sdsWarmupUntil), also after millis() has wrapped.  *)
C33_GatesStayOpen ==
    /\ []((loopPc = "bme_read" /\ BmeGateOpen) => [](loopPc = "bme_read" => BmeGateOpen))
    /\ []((loopPc = "sds_call" /\ SdsGateOpen) => [](loopPc = "sds_call" => SdsGateOpen))

----------------------------------------------------------------------------
(* a run of pollOverall comes back from its await and ends *)
OverallRunEnds == ovAwait' < ovAwait

(* C34: from the load of the page on there is always exactly one run of     *)
(* pollOverall waiting or one timer for the next run pending, never two     *)
(* timers; a run that ends sets exactly one timer, with an override, after  *)
(* a fetch that succeeded and after one that failed; after a failed fetch   *)
(* the badge shows OFFLINE; and runs go on being started for ever.          *)
C34_PollerNeverStopsNorDuplicates ==
    /\ [](baseLoaded => ovTimers + ovAwait = 1)
    /\ [](ovTimers <= 1)
    /\ [][OverallRunEnds => ovTimers' = ovTimers + 1]_vars
    /\ [][(OverallRunEnds /\ ovLast' = "failed") => badge'.text = "OFFLINE"]_vars
    /\ []<>(ovTick = 0)
    /\ []<>(ovTick = 1)

(* a fetch has failed while the tester had set an override: the badge shows *)
(* OFFLINE and the timer of the next run is pending                         *)
C34_FailedFetchRescheduled ==
    /\ ovLast = "failed"
    /\ statusOverride = "DANGER"
    /\ badge.text = "OFFLINE"
    /\ ovTimers = 1
    /\ ovAwait = 0

----------------------------------------------------------------------------
(* C35: a response to an earlier call of refreshGroundChart never replaces  *)
(* the rows of a later call, and once no call is waiting and the most       *)
(* recent call has been answered, the chart shows the node and metric of    *)
(* that call.                                                               *)
C35_ChartShowsLatestRequest ==
    /\ ~groundStale
    /\ (groundFlight = << >> /\ groundLatest = "applied") => groundChart = groundLastSel
====
